---- MODULE Spec2Model ----
(***************************************************************************)
(* ForHire: job acquisition and enrichment pipeline.                       *)
(*                                                                         *)
(*   Spec        ingestion gateway (addJobsToSystem) run by concurrent     *)
(*               callers against the jobs table                            *)
(*   SpecRead    read interface of the job service (getJobs, getJobCount,  *)
(*               getJobById) and the /api/v1/jobs route in front of it     *)
(*   SpecEnrich  enrichment worker (enrichJobDescriptions)                 *)
(*   SpecCrawl   crawl scheduler of the browser extension popup            *)
(*   SpecScrape  field extractors: the content script of the extension     *)
(*               (LinkedIn, Indeed) and the scrapers of the server (We     *)
(*               Work Remotely, RemoteOK) applied to a page                *)
(*   SpecTrigger runs of the enrichment worker started by POST /api/enrich *)
(*               and by enrich_jobs.js, at the grain of batches            *)
(*   SpecSelect  selection query of the enrichment worker on a large store *)
(*   SpecQuery   selection query applied to every kind of stored job       *)
(*   SpecRefresh periodic refresh of the store (refreshJobCache)           *)
(*   SpecList    listing route GET /api/v1/jobs                            *)
(*   SpecKeys    API keys (createApiKey, revokeApiKey)                     *)
(*   SpecQuota   monthly quota of the API (enforceQuota, recordUsage)      *)
(*                                                                         *)
(* Text is modelled as a sequence of tokens: <<>> is the empty string and  *)
(* LIKE '%t%' is contiguous containment of the token sequence t.  The      *)
(* clock counts months, the unit of the retention window.                  *)
(***************************************************************************)
EXTENDS Integers, Sequences, FiniteSets, Bags, TLC

VARIABLES
    jobs,       \* table jobs: the rows in insertion order
    now,        \* wall clock (months)
    call,       \* addJobsToSystem: per caller, the locals of the call in progress
    hist,       \* per caller: what the call and the one before it observed
    faults,     \* storage failures injected so far
    calls,      \* calls of addJobsToSystem started so far
    resp,       \* read interface: the last request and what it was answered
    run,        \* enrichJobDescriptions: the locals of the run
    fetch,      \* fetchJobDescription: per candidate, the state of its fetch
    cadence,    \* the batches issued and the cool-down delays waited, in order
    anomalies,  \* the candidates (0: the run itself) for which a step has gone wrong
    config,                 \* popup: config.json as loaded
    selectedLocations,      \* popup: the locations of the crawl
    isRunning,              \* popup: the crawl is running
    currentLocationIndex,   \* popup: index of the location being searched
    currentKeywordIndex,    \* popup: index of the keyword being searched
    allJobs,                \* popup: the jobs collected
    tab,                    \* the search the active tab was last navigated to
    pending,                \* bag of the awaits, timers and callbacks outstanding
    trail,                  \* the clicks, navigations, extractions and errors so far
    page,       \* the document an extractor is applied to
    scraped,    \* what the scrapes of the page have returned, in order
    runs,       \* per trigger: the run of enrichJobDescriptions it started
    answers,    \* per trigger: the response sent and what was logged, in order
    selected,   \* the candidates of the run in progress, as its selection query gave them
    apiKeys,    \* table api_keys: the rows in insertion order
    keyCall,    \* createApiKey: per caller, the locals of the call in progress
    usage,      \* table monthly_usage: total_rows of the user in the current month
    request     \* per caller: the API request in progress

ingestVars == <<call, hist, faults, calls>>
readVars == <<resp>>
enrichVars == <<run, fetch, cadence, anomalies>>
crawlVars == <<config, selectedLocations, isRunning, currentLocationIndex,
               currentKeywordIndex, allJobs, tab, pending, trail>>
scrapeVars == <<page, scraped>>
triggerVars == <<runs, answers>>
selectVars == <<selected>>
accountVars == <<apiKeys, keyCall, usage, request>>
vars == <<jobs, now, ingestVars, readVars, enrichVars, crawlVars, scrapeVars,
          triggerVars, selectVars, accountVars>>

\* what the ingestion gateway, the read interface, the enrichment worker and
\* the crawl scheduler never touch
outsideIngest == <<readVars, enrichVars, crawlVars, scrapeVars, triggerVars, selectVars,
                   accountVars>>
outsideRead == <<jobs, now, ingestVars, enrichVars, crawlVars, scrapeVars, triggerVars,
                 selectVars, accountVars>>
outsideEnrich == <<now, ingestVars, readVars, crawlVars, scrapeVars, triggerVars, selectVars,
                   accountVars>>
outsideCrawl == <<jobs, now, ingestVars, readVars, enrichVars, scrapeVars, triggerVars,
                  selectVars, accountVars>>
outsideScrape == <<jobs, now, ingestVars, readVars, enrichVars, crawlVars, triggerVars,
                   selectVars, accountVars>>
outsideTrigger == <<now, ingestVars, readVars, enrichVars, crawlVars, scrapeVars, selectVars,
                    accountVars>>
outsideSelect == <<now, ingestVars, readVars, enrichVars, crawlVars, scrapeVars, triggerVars,
                   accountVars>>
outsideAccount == <<jobs, now, ingestVars, readVars, enrichVars, crawlVars, scrapeVars,
                    triggerVars, selectVars>>

----------------------------------------------------------------------------
(* Bounds *)

MaxBatchLen == 2
MaxTime == 2
MaxCalls == 2
MaxFaults == 1
MaxFilters == 2
MaxCandidates == 12
MaxAnomalies == 1
MaxClicks == 3
MaxCrawlFaults == 1
MaxTrail == 8

Callers == {"c1", "c2"}

----------------------------------------------------------------------------
(* Text *)

Falsy(x) == x = <<>>

\* JavaScript a || b on strings
Or(a, b) == IF Falsy(a) THEN b ELSE a

\* new Date().toLocaleDateString()
toLocaleDateString(t) ==
    CASE t = 0 -> <<"1/6/2026">>
      [] t = 1 -> <<"2/6/2026">>
      [] t = 2 -> <<"3/6/2026">>
      [] OTHER -> <<"later">>

----------------------------------------------------------------------------
(* RawJobRecord: the records producers hand to the ingestion gateway *)

RecA1 == [id |-> "li-101", title |-> <<"Security", "Analyst">>,
          company |-> <<"Acme">>, location |-> <<"Austin", "TX">>,
          type |-> <<"Contract">>, salary |-> <<"$120K">>,
          posted |-> <<"Recently">>, description |-> <<"View", "posting", "for", "details">>,
          url |-> <<"https://linkedin/101">>, source |-> <<"LinkedIn">>,
          easyApply |-> TRUE]

\* the same posting scraped again after the site changed it
RecA2 == [id |-> "li-101", title |-> <<"Senior", "Security", "Analyst">>,
          company |-> <<"Acme", "Corp">>, location |-> <<"Remote">>,
          type |-> <<"Full-time">>, salary |-> <<"$150K">>,
          posted |-> <<"Today">>, description |-> <<"Updated">>,
          url |-> <<"https://linkedin/101?v=2">>, source |-> <<"Indeed">>,
          easyApply |-> FALSE]

\* a record with every optional field missing
RecB == [id |-> "ext-7", title |-> <<>>, company |-> <<>>, location |-> <<>>,
         type |-> <<>>, salary |-> <<>>, posted |-> <<>>, description |-> <<>>,
         url |-> <<>>, source |-> <<>>, easyApply |-> FALSE]

\* a batch (newJobs) is a sequence of keys of this catalog
Catalog == [A1 |-> RecA1, A2 |-> RecA2, B |-> RecB]

\* for (const job of newJobs): the record at position i of a batch
JobAt(newJobs, i) == Catalog[newJobs[i]]

RECURSIVE SeqsUpTo(_, _)
SeqsUpTo(S, n) ==
    IF n = 0 THEN {<<>>}
    ELSE LET shorter == SeqsUpTo(S, n - 1)
         IN  shorter \cup {Append(s, x) : s \in {t \in shorter : Len(t) = n - 1}, x \in S}

Batches == SeqsUpTo(DOMAIN Catalog, MaxBatchLen)

----------------------------------------------------------------------------
(* Table jobs *)

RetentionMonths == 1

\* SELECT id FROM jobs WHERE id = ?
SelectById(table, id) == {k \in 1..Len(table) : table[k].id = id}

\* id VARCHAR(255) PRIMARY KEY
DuplicateKey(table, id) == SelectById(table, id) # {}

\* added_at left to the column default CURRENT_TIMESTAMP of the insert
InsertValues_Stamp(job, addedAt, expiresAt, t) ==
    [id |-> job.id, title |-> Or(job.title, <<"Unknown", "Title">>),
     company |-> Or(job.company, <<"Unknown", "Company">>),
     location |-> Or(job.location, <<"Remote">>),
     type |-> Or(job.type, <<"Full-time">>),
     salary |-> Or(job.salary, <<"Not", "listed">>),
     posted_date |-> Or(job.posted, toLocaleDateString(t)),
     description |-> Or(job.description, <<>>),
     url |-> Or(job.url, <<>>),
     source |-> Or(job.source, <<"External">>),
     easy_apply |-> job.easyApply,
     added_at |-> t,
     expires_at |-> expiresAt]

\* the row the INSERT of addJobsToSystem binds for a record
InsertValues(job, addedAt, expiresAt, t) ==
    [id |-> job.id,
     title |-> Or(job.title, <<"Unknown", "Title">>),
     company |-> Or(job.company, <<"Unknown", "Company">>),
     location |-> Or(job.location, <<"Remote">>),
     type |-> Or(job.type, <<"Full-time">>),
     salary |-> Or(job.salary, <<"Not", "listed">>),
     posted_date |-> Or(job.posted, toLocaleDateString(t)),
     description |-> Or(job.description, <<>>),
     url |-> Or(job.url, <<>>),
     source |-> Or(job.source, <<"External">>),
     easy_apply |-> job.easyApply,
     added_at |-> addedAt,
     expires_at |-> expiresAt]

\* the table after the INSERT of a row
StoreRow(table, row) == Append(table, row)

\* addedCount++ moved out of the if: every record of the batch is counted
CountAfter_Every(addedCount, found) == addedCount + 1

\* count after a record has been looked up and, when absent, inserted
CountAfter(addedCount, found) == IF found THEN addedCount ELSE addedCount + 1

----------------------------------------------------------------------------
(* addJobsToSystem *)

IdleCall == [pc |-> "idle", newJobs |-> <<>>, i |-> 0, addedCount |-> 0,
             addedAt |-> 0, expiresAt |-> 0]

\* snap: the table when the call began; t0: the clock when the call began;
\* foreign: another caller has inserted since the call began;
\* faultAt: the record at which a storage failure hit the call (0: none);
\* replay: the call repeats the batch of the caller's previous call, which
\* returned normally, and no other caller has inserted since that call began
NoHist == [snap |-> <<>>, t0 |-> 0, foreign |-> FALSE, faultAt |-> 0, replay |-> FALSE]

Done(c) == c.pc \in {"idle", "returned", "threw"}

\* the for loop moves to the next record, or falls out of the loop and returns
Advance(c, count) ==
    IF c.i < Len(c.newJobs)
    THEN [c EXCEPT !.pc = "select", !.i = c.i + 1, !.addedCount = count]
    ELSE [c EXCEPT !.pc = "returned", !.addedCount = count]

\* a caller invokes addJobsToSystem(newJobs): an empty batch returns 0 at
\* once; otherwise pool.getConnection() resolves and the dates are computed,
\* once for the whole call, or it rejects and the error is rethrown
Call(p, newJobs, connected) ==
    /\ Done(call[p])
    /\ calls < MaxCalls
    /\ calls' = calls + 1
    /\ connected \/ (Len(newJobs) > 0 /\ faults < MaxFaults)
    /\ faults' = IF connected THEN faults ELSE faults + 1
    /\ call' = [call EXCEPT ![p] =
                  IF Len(newJobs) = 0 THEN [IdleCall EXCEPT !.pc = "returned"]
                  ELSE IF ~connected THEN [IdleCall EXCEPT !.pc = "threw", !.newJobs = newJobs]
                  ELSE [pc |-> "select", newJobs |-> newJobs, i |-> 1, addedCount |-> 0,
                        addedAt |-> now, expiresAt |-> now + RetentionMonths]]
    /\ hist' = [hist EXCEPT ![p] =
                  [snap |-> jobs, t0 |-> now, foreign |-> FALSE, faultAt |-> 0,
                   replay |-> /\ call[p].pc = "returned"
                              /\ call[p].newJobs = newJobs
                              /\ ~hist[p].foreign]]
    /\ UNCHANGED <<jobs, now>>
    /\ UNCHANGED outsideIngest

\* SELECT id FROM jobs WHERE id = ? for the current record
Select(p) ==
    /\ call[p].pc = "select"
    /\ LET c == call[p]
           rows == SelectById(jobs, JobAt(c.newJobs, c.i).id)
       IN  call' = [call EXCEPT ![p] =
                      IF rows = {} THEN [c EXCEPT !.pc = "insert"]
                      ELSE Advance(c, CountAfter(c.addedCount, TRUE))]
    /\ UNCHANGED <<jobs, now, hist, faults, calls>>
    /\ UNCHANGED outsideIngest

\* INSERT ... ON DUPLICATE KEY UPDATE: a conflicting row is overwritten
Insert_Upsert(p) ==
    /\ call[p].pc = "insert"
    /\ LET c == call[p]
           job == JobAt(c.newJobs, c.i)
           row == InsertValues(job, c.addedAt, c.expiresAt, now)
       IN  /\ jobs' = IF DuplicateKey(jobs, job.id)
                      THEN [k \in 1..Len(jobs) |-> IF jobs[k].id = job.id THEN row ELSE jobs[k]]
                      ELSE StoreRow(jobs, row)
           /\ call' = [call EXCEPT ![p] = Advance(c, CountAfter(c.addedCount, FALSE))]
           /\ hist' = [q \in Callers |->
                         IF q = p THEN hist[q] ELSE [hist[q] EXCEPT !.foreign = TRUE]]
    /\ UNCHANGED <<now, faults, calls>>
    /\ UNCHANGED outsideIngest

\* INSERT INTO jobs for the current record; the primary key rejects a
\* second row with the same id and the error leaves through catch/throw
Insert(p) ==
    /\ call[p].pc = "insert"
    /\ LET c == call[p]
           job == JobAt(c.newJobs, c.i)
       IN  IF DuplicateKey(jobs, job.id)
           THEN /\ call' = [call EXCEPT ![p].pc = "threw"]
                /\ UNCHANGED <<jobs, hist>>
           ELSE /\ jobs' = StoreRow(jobs, InsertValues(job, c.addedAt, c.expiresAt, now))
                /\ call' = [call EXCEPT ![p] = Advance(c, CountAfter(c.addedCount, FALSE))]
                /\ hist' = [q \in Callers |->
                              IF q = p THEN hist[q] ELSE [hist[q] EXCEPT !.foreign = TRUE]]
    /\ UNCHANGED <<now, faults, calls>>
    /\ UNCHANGED outsideIngest

\* a query of the call rejects (connection lost, query error): catch logs
\* and rethrows, finally releases the connection
StorageFailure(p) ==
    /\ call[p].pc \in {"select", "insert"}
    /\ faults < MaxFaults
    /\ faults' = faults + 1
    /\ call' = [call EXCEPT ![p].pc = "threw"]
    /\ hist' = [hist EXCEPT ![p].faultAt = call[p].i]
    /\ UNCHANGED <<jobs, now, calls>>
    /\ UNCHANGED outsideIngest

Tick ==
    /\ now < MaxTime
    /\ now' = now + 1
    /\ UNCHANGED <<jobs, ingestVars, readVars, enrichVars, crawlVars, scrapeVars,
                   triggerVars, selectVars, accountVars>>

InitStore ==
    /\ jobs = <<>>
    /\ now = 0

InitIngest ==
    /\ call = [p \in Callers |-> IdleCall]
    /\ hist = [p \in Callers |-> NoHist]
    /\ faults = 0
    /\ calls = 0

NoResponse == [op |-> "none"]

InitRead == resp = NoResponse

NoRun == [pc |-> "idle", jobs |-> <<>>, i |-> 0, j |-> 0, enrichedCount |-> 0,
          failedCount |-> 0, browser |-> "none", closes |-> 0, thrown |-> FALSE]

InitEnrich ==
    /\ run = NoRun
    /\ fetch = <<>>
    /\ cadence = <<>>
    /\ anomalies = {}

\* config.json not loaded, or loaded without keywords
NoConfig == [keywords |-> <<>>]

NoSearch == [l |-> "-", k |-> "-"]

\* the globals of the popup as declared
InitPopup ==
    /\ selectedLocations = <<>>
    /\ isRunning = FALSE
    /\ currentLocationIndex = 0
    /\ currentKeywordIndex = 0
    /\ allJobs = <<>>
    /\ tab = NoSearch
    /\ pending = EmptyBag
    /\ trail = <<>>

InitCrawl == config = NoConfig /\ InitPopup

\* no document loaded, nothing scraped
NoPage == [site |-> "none", cards |-> <<>>]

InitScrape ==
    /\ page = NoPage
    /\ scraped = <<>>

\* no trigger has arrived
InitTrigger ==
    /\ runs = <<>>
    /\ answers = <<>>

\* no selection query has run
NoSelection == [queried |-> FALSE, ids |-> <<>>]

InitSelect == selected = NoSelection

IdleKeyCall == [pc |-> "idle", user |-> "-", count |-> 0]

IdleRequest == [pc |-> "idle", requested |-> 0, rows |-> 0]

\* no API key created, nothing used this month, no call and no request
InitAccount ==
    /\ apiKeys = <<>>
    /\ keyCall = [p \in Callers |-> IdleKeyCall]
    /\ usage = 0
    /\ request = [p \in Callers |-> IdleRequest]

InitOthers == InitScrape /\ InitTrigger /\ InitSelect /\ InitAccount

Init == InitStore /\ InitIngest /\ InitRead /\ InitEnrich /\ InitCrawl /\ InitOthers

Next ==
    \/ \E p \in Callers, newJobs \in Batches, connected \in BOOLEAN : Call(p, newJobs, connected)
    \/ \E p \in Callers : Select(p)
    \/ \E p \in Callers : Insert(p)
    \/ \E p \in Callers : StorageFailure(p)
    \/ Tick

Spec == Init /\ [][Next]_vars

----------------------------------------------------------------------------
(* Ingestion gateway: properties *)

Range(f) == {f[k] : k \in DOMAIN f}

StoredIds(table) == {table[k].id : k \in DOMAIN table}

IdsOf(newJobs) == {JobAt(newJobs, i).id : i \in DOMAIN newJobs}

\* the first record of the batch that carries the id
FirstOf(newJobs, id) ==
    JobAt(newJobs, CHOOSE i \in DOMAIN newJobs :
                     /\ JobAt(newJobs, i).id = id
                     /\ \A j \in 1..(i - 1) : JobAt(newJobs, j).id # id)

\* C1: a call that repeats the batch of the caller's previous call, which
\* returned normally, with no other writer since that call began, returns 0
\* and leaves the table as it found it, every id of the batch stored once.
C1_IdempotentIngestion ==
    \A p \in Callers :
        (call[p].pc = "returned" /\ hist[p].replay /\ ~hist[p].foreign)
        => /\ call[p].addedCount = 0
           /\ jobs = hist[p].snap
           /\ \A id \in IdsOf(call[p].newJobs) : Cardinality(SelectById(jobs, id)) = 1

C1_Witness ==
    \E p \in Callers :
        /\ call[p].pc = "returned" /\ hist[p].replay /\ ~hist[p].foreign
        /\ Cardinality(IdsOf(call[p].newJobs)) = 2

\* C2: no step of any ingest call removes a stored row or changes a field
\* of it, and no second row with the id of a stored row appears.
C2_NoUpdateOnConflict ==
    [][\A r \in Range(jobs) :
          /\ r \in Range(jobs')
          /\ \A r2 \in Range(jobs') : r2.id = r.id => r2 = r]_vars

\* a caller has gone through a record whose id is stored with other fields
C2_Witness ==
    \E p \in Callers : \E i \in 1..Len(call[p].newJobs) : \E r \in Range(jobs) :
        /\ call[p].pc = "returned"
        /\ JobAt(call[p].newJobs, i).id = r.id
        /\ JobAt(call[p].newJobs, i).title # r.title
        /\ r \in Range(hist[p].snap)

\* C3: a storage failure on one record does not abort the batch: the call
\* still goes through every remaining record and returns its count.
C3_FailureIsolation ==
    \A p \in Callers :
        (hist[p].faultAt > 0 /\ Done(call[p]))
        => /\ call[p].pc = "returned"
           /\ call[p].i = Len(call[p].newJobs)

\* C4: when two calls that began against the same table have both ended and
\* the store has rejected nothing on its own account, every id is stored
\* once, neither call has failed, and the two counts add up to the rows
\* stored since.
C4_ConcurrentDedup ==
    (/\ \A p \in Callers : call[p].pc \in {"returned", "threw"}
     /\ faults = 0
     /\ hist["c1"].snap = hist["c2"].snap)
    => /\ \A id \in StoredIds(jobs) : Cardinality(SelectById(jobs, id)) = 1
       /\ \A p \in Callers : call[p].pc = "returned"
       /\ call["c1"].addedCount + call["c2"].addedCount = Len(jobs) - Len(hist["c1"].snap)

\* C5: a call that returns, with no other writer since it began, returns the
\* number of distinct ids of the batch that were absent when it began; the
\* table is the one it found followed by one row per such id, taken from the
\* first record with that id, added_at the time of the call and expires_at
\* the retention window later.
C5_ReturnsNewCount ==
    \A p \in Callers :
        (call[p].pc = "returned" /\ ~hist[p].foreign)
        => LET snap == hist[p].snap
               new == IdsOf(call[p].newJobs) \ StoredIds(snap)
           IN  /\ call[p].addedCount = Cardinality(new)
               /\ Len(jobs) = Len(snap) + Cardinality(new)
               /\ SubSeq(jobs, 1, Len(snap)) = snap
               /\ {jobs[k].id : k \in (Len(snap) + 1)..Len(jobs)} = new
               /\ \A k \in (Len(snap) + 1)..Len(jobs) :
                    LET r == jobs[k]
                        job == FirstOf(call[p].newJobs, r.id)
                    IN  /\ r.added_at = hist[p].t0
                        /\ r.expires_at = r.added_at + RetentionMonths
                        /\ r.expires_at > r.added_at
                        /\ job.title # <<>> => r.title = job.title
                        /\ job.location # <<>> => r.location = job.location
                        /\ job.url # <<>> => r.url = job.url
                        /\ r.easy_apply = job.easyApply

\* a batch with a repeated id, one id already stored and one new id,
\* finished after the clock moved on
C5_Witness ==
    \E p \in Callers :
        /\ call[p].pc = "returned" /\ ~hist[p].foreign
        /\ Len(call[p].newJobs) > Cardinality(IdsOf(call[p].newJobs))
        /\ call[p].addedCount = 1
        /\ now > hist[p].t0
        /\ \E q \in Callers : q # p /\ call[q].pc = "returned" /\ call[q].addedCount = 1
                              /\ IdsOf(call[q].newJobs) \cap IdsOf(call[p].newJobs) = {}

----------------------------------------------------------------------------
(* Read interface: getJobs, getJobCount, getJobById, GET /api/v1/jobs *)

\* the tables' collation compares without regard to case
Fold(tok) ==
    CASE tok = "Remote" -> "remote"
      [] tok = "Austin" -> "austin"
      [] tok = "Acme" -> "acme"
      [] tok = "Security" -> "security"
      [] OTHER -> tok

FoldText(text) == [k \in 1..Len(text) |-> Fold(text[k])]

\* column LIKE '%term%'
Like(text, term) ==
    \E k \in 1..(Len(text) - Len(term) + 1) :
        SubSeq(FoldText(text), k, k + Len(term) - 1) = FoldText(term)

\* String.prototype.trim
RECURSIVE trim(_)
trim(text) ==
    IF text = <<>> THEN <<>>
    ELSE IF Head(text) = " " THEN trim(Tail(text))
    ELSE IF text[Len(text)] = " " THEN trim(SubSeq(text, 1, Len(text) - 1))
    ELSE text

\* String.prototype.split(",")
RECURSIVE split(_)
split(text) ==
    IF \A k \in 1..Len(text) : text[k] # ","
    THEN <<text>>
    ELSE LET k == CHOOSE i \in 1..Len(text) :
                     text[i] = "," /\ \A j \in 1..(i - 1) : text[j] # ","
         IN  <<SubSeq(text, 1, k - 1)>> \o split(SubSeq(text, k + 1, Len(text)))

\* locations.split(",").map((l) => l.trim()).filter((l) => l)
ParseLocations(text) ==
    SelectSeq([k \in 1..Len(split(text)) |-> trim(split(text)[k])], LAMBDA l : l # <<>>)

\* a location filter is absent, a string, or an array of strings
NoLocation == [kind |-> "none"]
LocationString(text) == [kind |-> "string", text |-> text]
LocationList(items) == [kind |-> "list", items |-> items]

\* filters.location.trim(): an array has no trim method and the TypeError
\* is caught by the try/catch around the whole query
LocationThrows(filters) == filters.location.kind = "list"

Unexpired(row, t) == row.expires_at > t

SearchCondition(row, filters) ==
    trim(filters.search) # <<>>
    => \/ Like(row.title, filters.search)
       \/ Like(row.company, filters.search)
       \/ Like(row.description, filters.search)

LocationCondition(row, filters) ==
    (filters.location.kind = "string" /\ trim(filters.location.text) # <<>>)
    => LET locations == ParseLocations(filters.location.text)
       IN  Len(locations) > 0 => \E k \in 1..Len(locations) : Like(row.location, locations[k])

CompanyCondition(row, filters) ==
    trim(filters.company) # <<>> => Like(row.company, filters.company)

RemoteCondition(row, filters) ==
    filters.remote => (Like(row.location, <<"remote">>) \/ Like(row.location, <<"Remote">>))

\* the WHERE clause getJobs builds
GetJobsWhere(row, t, filters) ==
    /\ Unexpired(row, t)
    /\ SearchCondition(row, filters)
    /\ LocationCondition(row, filters)
    /\ CompanyCondition(row, filters)
    /\ RemoteCondition(row, filters)

\* the WHERE clause getJobCount builds
GetJobCountWhere(row, t, filters) ==
    /\ Unexpired(row, t)
    /\ SearchCondition(row, filters)
    /\ LocationCondition(row, filters)

\* ORDER BY added_at DESC: rows with equal added_at come in any order
Orderings(rows) ==
    {o \in [1..Cardinality(rows) -> rows] :
        /\ \A a, b \in 1..Cardinality(rows) : a # b => o[a] # o[b]
        /\ \A a, b \in 1..Cardinality(rows) : a < b => o[a].added_at >= o[b].added_at}

\* LIMIT ? OFFSET ?, each only when the filter is truthy
Window(ordered, filters) ==
    LET from == filters.offset + 1
        to == IF filters.limit > 0 THEN filters.offset + filters.limit ELSE Len(ordered)
    IN  SubSeq(ordered, from, IF to > Len(ordered) THEN Len(ordered) ELSE to)

\* the results getJobs can return: [] when building or running the query
\* throws (OFFSET without LIMIT is not valid SQL)
GetJobsResults(table, t, filters) ==
    IF LocationThrows(filters) \/ (filters.offset > 0 /\ filters.limit = 0)
    THEN {<<>>}
    ELSE {Window(o, filters) :
            o \in Orderings({r \in Range(table) : GetJobsWhere(r, t, filters)})}

getJobCount(table, t, filters) ==
    IF LocationThrows(filters) THEN 0
    ELSE Cardinality({r \in Range(table) : GetJobCountWhere(r, t, filters)})

\* SELECT * FROM jobs WHERE id = ?; rows[0] || null
getJobById(table, jobId) ==
    IF SelectById(table, jobId) = {} THEN <<>>
    ELSE <<table[CHOOSE k \in SelectById(table, jobId) : TRUE]>>

\* the filter sets callers pass
SalaryFloor == 130

NoFilters ==
    [search |-> <<>>, location |-> NoLocation, company |-> <<>>, remote |-> FALSE,
     salaryMin |-> 0, postedAfter |-> -1, limit |-> 0, offset |-> 0]

Supplied(filters) ==
    Cardinality({f \in DOMAIN NoFilters : filters[f] # NoFilters[f]})

FilterSets ==
    {filters \in
        [search : {<<>>, <<"security">>},
         location : {NoLocation, LocationString(<<"Austin">>),
                     LocationString(<<"Austin", ",", " ", "Remote">>),
                     LocationList(<<<<"Austin">>, <<"Remote">>>>)},
         company : {<<>>, <<"Acme">>},
         remote : BOOLEAN,
         salaryMin : {0, SalaryFloor},
         postedAfter : {-1, 0},
         limit : {0, 1},
         offset : {0, 1}] : Supplied(filters) <= MaxFilters}

getJobs(filters) ==
    /\ \E rows \in GetJobsResults(jobs, now, filters) :
          resp' = [op |-> "getJobs", filters |-> filters, rows |-> rows]
    /\ UNCHANGED outsideRead

GetJobCount(filters) ==
    /\ resp' = [op |-> "getJobCount", filters |-> filters,
                total |-> getJobCount(jobs, now, filters)]
    /\ UNCHANGED outsideRead

GetJobById(jobId) ==
    /\ resp' = [op |-> "getJobById", jobId |-> jobId, rows |-> getJobById(jobs, jobId)]
    /\ UNCHANGED outsideRead

\* addJobsToSystem run to completion on its own
RECURSIVE Ingested(_, _, _)
Ingested(table, newJobs, t) ==
    IF newJobs = <<>> THEN table
    ELSE LET job == Catalog[Head(newJobs)]
         IN  Ingested(IF DuplicateKey(table, job.id) THEN table
                      ELSE StoreRow(table, InsertValues(job, t, t + RetentionMonths, t)),
                      Tail(newJobs), t)

\* the store after one batch ingested at time 0 and another at some later time
InitReadStore ==
    \E first, second \in Batches : \E t \in 0..MaxTime :
        /\ jobs = Ingested(Ingested(<<>>, first, 0), second, t)
        /\ now = t

InitReadSpec ==
    InitReadStore /\ InitIngest /\ InitRead /\ InitEnrich /\ InitCrawl /\ InitOthers

NextRead ==
    \/ \E filters \in FilterSets : getJobs(filters)
    \/ \E filters \in FilterSets : GetJobCount(filters)
    \/ \E jobId \in {Catalog[k].id : k \in DOMAIN Catalog} : GetJobById(jobId)
    \/ Tick

SpecRead == InitReadSpec /\ [][NextRead]_vars

\* what a job offers against the salary and date filters
SalaryOf(row) ==
    CASE row.salary = <<"$120K">> -> 120
      [] row.salary = <<"$150K">> -> 150
      [] OTHER -> 0

\* a job satisfies every filter that was supplied
Satisfies(row, filters) ==
    /\ SearchCondition(row, filters)
    /\ (filters.location.kind = "string" => LocationCondition(row, filters))
    /\ (filters.location.kind = "list" =>
          \E k \in 1..Len(filters.location.items) : Like(row.location, filters.location.items[k]))
    /\ CompanyCondition(row, filters)
    /\ RemoteCondition(row, filters)
    /\ (filters.salaryMin > 0 => SalaryOf(row) >= filters.salaryMin)
    /\ (filters.postedAfter >= 0 => row.added_at > filters.postedAfter)

\* C6: no read of the job service returns a job whose expires_at has passed.
C6_ExpiryFiltering ==
    /\ resp.op \in {"getJobs", "getJobById"}
       => \A k \in 1..Len(resp.rows) : resp.rows[k].expires_at >= now
    /\ resp.op = "getJobCount"
       => resp.total <= Cardinality({r \in Range(jobs) : r.expires_at >= now})

\* C7: a listing without limit and offset is exactly the unexpired jobs that
\* satisfy every supplied filter; with them it is a window of those jobs.
C7_ConjunctiveFilters ==
    resp.op = "getJobs"
    => LET matching == {r \in Range(jobs) : Unexpired(r, now) /\ Satisfies(r, resp.filters)}
       IN  /\ Range(resp.rows) \subseteq matching
           /\ (resp.filters.limit = 0 /\ resp.filters.offset = 0)
              => Range(resp.rows) = matching

----------------------------------------------------------------------------
(* Enrichment worker: enrichJobDescriptions *)

BATCH_SIZE == 5
MAX_RETRIES == 2

\* description.length > 50
MinViableLength == 50

\* LENGTH(description) < 100, LIMIT 100
MinDescriptionLength == 100
SelectionLimit == 100

\* characters of a token
TokLen(tok) ==
    CASE tok = "c10" -> 10
      [] tok = "c50" -> 50
      [] tok = "c51" -> 51
      [] tok = "c120" -> 120
      [] tok = "View" -> 4
      [] tok = "posting" -> 7
      [] tok = "for" -> 3
      [] tok = "details" -> 7
      [] tok = "Description" -> 11
      [] tok = "not" -> 3
      [] tok = "available" -> 9
      [] OTHER -> 6

\* String.prototype.length, LENGTH(): the tokens and the blanks between them
RECURSIVE length(_)
length(text) ==
    IF text = <<>> THEN 0
    ELSE IF Len(text) = 1 THEN TokLen(text[1])
    ELSE TokLen(text[1]) + 1 + length(Tail(text))

\* column LIKE 'prefix%'
LikePrefix(text, prefix) ==
    /\ Len(text) >= Len(prefix)
    /\ SubSeq(FoldText(text), 1, Len(prefix)) = FoldText(prefix)

NeedsEnrichment_OnlyAbsent(row) ==
    /\ row.url # <<>>
    /\ row.url # <<"#">>
    /\ row.description = <<>>

\* the WHERE clause of getJobsNeedingEnrichment
NeedsEnrichment(row) ==
    /\ row.url # <<>>
    /\ row.url # <<"#">>
    /\ \/ row.description = <<>>
       \/ FoldText(row.description) = FoldText(<<"View", "posting", "for", "details">>)
       \/ LikePrefix(row.description, <<"Job", "scraped", "from">>)
       \/ length(row.description) < MinDescriptionLength

\* ORDER BY added_at DESC
OrderByAddedAtDesc(rows) == SortSeq(rows, LAMBDA a, b : a.added_at > b.added_at)

\* SELECT id, title, company, url, source, description ... LIMIT 100
getJobsNeedingEnrichment(table) ==
    LET rows == OrderByAddedAtDesc(SelectSeq(table, NeedsEnrichment))
        n == IF Len(rows) > SelectionLimit THEN SelectionLimit ELSE Len(rows)
    IN  [k \in 1..n |-> [id |-> rows[k].id, title |-> rows[k].title,
                         company |-> rows[k].company, url |-> rows[k].url,
                         source |-> rows[k].source, description |-> rows[k].description]]

\* UPDATE jobs SET description = ? WHERE id = ?
UpdateDescription(table, jobId, description) ==
    [k \in 1..Len(table) |->
        IF table[k].id = jobId THEN [table[k] EXCEPT !.description = description]
        ELSE table[k]]

\* what the detail page of a job can give to one attempt
Text10 == <<"c10">>
Text50 == <<"c50">>
Text51 == <<"c51">>
Text120 == <<"c120">>

Nominal == [kind |-> "extracted", text |-> Text120]

PageOutcomes ==
    {[kind |-> "throws"], [kind |-> "null"]}
    \cup {[kind |-> "extracted", text |-> t] : t \in {<<>>, Text10, Text50, Text51, Text120}}

\* the extractors: null when the selector wait fails, else
\* description || 'Description not available'
Extracted(outcome) ==
    IF outcome.kind = "null" THEN <<>>
    ELSE Or(outcome.text, <<"Description", "not", "available">>)

Viable_Truthy(description) == ~Falsy(description)

\* if (description && description.length > 50)
Viable(description) == ~Falsy(description) /\ length(description) > MinViableLength

MayRetry_Inclusive(retryCount) == retryCount <= MAX_RETRIES

\* if (retryCount < MAX_RETRIES)
MayRetry(retryCount) == retryCount < MAX_RETRIES

allSettled_Any(states, members) == \E k \in members : states[k].st = "settled"

\* Promise.allSettled over the fetches of the batch
allSettled(states, members) == \A k \in members : states[k].st = "settled"

CoolDown_Inclusive(i, n) == i + BATCH_SIZE <= n

\* if (i + BATCH_SIZE < jobs.length)
CoolDown(i, n) == i + BATCH_SIZE < n

NoFetch == [st |-> "none", retryCount |-> 0, value |-> <<>>, attempts |-> 0,
            bucket |-> "none", open |-> 0, description |-> <<>>]

\* jobs.slice(i, i + BATCH_SIZE), as positions of the candidate list
BatchMembers_Whole(i, n) == (i + 1)..n

BatchMembers(i, n) == (i + 1)..(IF i + BATCH_SIZE < n THEN i + BATCH_SIZE ELSE n)

BatchEvent(r, i) ==
    [kind |-> "batch",
     ids |-> [m \in 1..Cardinality(BatchMembers(i, Len(r.jobs))) |-> r.jobs[i + m].id]]

DelayEvent == [kind |-> "delay"]

\* the head of the for loop at position i: the next batch is sliced and its
\* fetches are invoked, or the loop is left towards finally
LoopHead(r, f, c, i) ==
    IF i < Len(r.jobs)
    THEN /\ run' = [r EXCEPT !.pc = "fetching", !.i = i, !.j = 0]
         /\ fetch' = [k \in 1..Len(f) |->
                        IF k \in BatchMembers(i, Len(r.jobs))
                        THEN [f[k] EXCEPT !.st = "opening"] ELSE f[k]]
         /\ cadence' = Append(c, BatchEvent(r, i))
    ELSE /\ run' = [r EXCEPT !.pc = "closing", !.i = i]
         /\ fetch' = f
         /\ cadence' = c

Anomaly(k, nominal) ==
    /\ nominal \/ k \in anomalies \/ Cardinality(anomalies) < MaxAnomalies
    /\ anomalies' = IF nominal THEN anomalies ELSE anomalies \cup {k}

\* enrichJobDescriptions is called: the candidates are read (a failing
\* query is caught and gives none); with none the run returns at once
Enrich(reachable) ==
    /\ run.pc = "idle"
    /\ Anomaly(0, reachable)
    /\ LET found == IF reachable THEN getJobsNeedingEnrichment(jobs) ELSE <<>>
       IN  /\ run' = IF Len(found) = 0 THEN [NoRun EXCEPT !.pc = "returned"]
                     ELSE [NoRun EXCEPT !.pc = "launching", !.jobs = found]
           /\ fetch' = [k \in 1..Len(found) |-> NoFetch]
    /\ UNCHANGED <<jobs, cadence>>
    /\ UNCHANGED outsideEnrich

\* puppeteer.launch resolves and the loop starts, or rejects and the run throws
Launch(launched) ==
    /\ run.pc = "launching"
    /\ Anomaly(0, launched)
    /\ IF launched
       THEN LoopHead([run EXCEPT !.browser = "open"], fetch, cadence, 0)
       ELSE /\ run' = [run EXCEPT !.pc = "threw"]
            /\ UNCHANGED <<fetch, cadence>>
    /\ UNCHANGED jobs
    /\ UNCHANGED outsideEnrich

\* a fetch attempt has failed or come back short: retry or give up with null
AfterFailure(f, delayed) ==
    IF MayRetry(f.retryCount)
    THEN IF delayed THEN [f EXCEPT !.st = "backoff"]
         ELSE [f EXCEPT !.st = "opening", !.retryCount = f.retryCount + 1]
    ELSE [f EXCEPT !.st = "settled", !.value = <<>>]

\* await page.close() after the extraction
ClosePage(f) == [f EXCEPT !.open = f.open - 1]

CatchClose_Leak(f) == f

\* if (page) await page.close().catch(() => {})
CatchClose(f) == IF f.open > 0 THEN [f EXCEPT !.open = f.open - 1] ELSE f

\* browser.newPage() of an attempt resolves, or rejects into the catch
OpenPage(k, opened) ==
    /\ k \in DOMAIN fetch
    /\ fetch[k].st = "opening"
    /\ Anomaly(k, opened)
    /\ LET f == [fetch[k] EXCEPT !.attempts = fetch[k].attempts + 1, !.description = <<>>]
       IN  fetch' = [fetch EXCEPT ![k] =
                       IF opened THEN [f EXCEPT !.st = "page", !.open = f.open + 1]
                       ELSE AfterFailure(CatchClose(f), TRUE)]
    /\ UNCHANGED <<jobs, run, cadence>>
    /\ UNCHANGED outsideEnrich

\* navigation, settle delay, extraction and page.close() of an attempt
PageDone(k, outcome) ==
    /\ k \in DOMAIN fetch
    /\ fetch[k].st = "page"
    /\ Anomaly(k, outcome = Nominal)
    /\ LET f == [fetch[k] EXCEPT !.description = Extracted(outcome)]
       IN  fetch' = [fetch EXCEPT ![k] =
                       IF outcome.kind = "throws" THEN AfterFailure(CatchClose(fetch[k]), TRUE)
                       ELSE IF Viable(f.description)
                            THEN [ClosePage(f) EXCEPT !.st = "settled",
                                                      !.value = f.description]
                            ELSE AfterFailure(ClosePage(f), FALSE)]
    /\ UNCHANGED <<jobs, run, cadence>>
    /\ UNCHANGED outsideEnrich

\* the 2 seconds before a retry after an error have passed
BackoffElapsed(k) ==
    /\ k \in DOMAIN fetch
    /\ fetch[k].st = "backoff"
    /\ fetch' = [fetch EXCEPT ![k].st = "opening", ![k].retryCount = fetch[k].retryCount + 1]
    /\ UNCHANGED <<jobs, run, cadence, anomalies>>
    /\ UNCHANGED outsideEnrich

\* await Promise.allSettled(...) resumes
BatchSettled ==
    /\ run.pc = "fetching"
    /\ allSettled(fetch, BatchMembers(run.i, Len(run.jobs)))
    /\ run' = [run EXCEPT !.pc = "updating", !.j = 0]
    /\ UNCHANGED <<jobs, fetch, cadence, anomalies>>
    /\ UNCHANGED outsideEnrich

\* enrichedCount++
CountEnriched(r) == [r EXCEPT !.enrichedCount = r.enrichedCount + 1]

CountFailed_Thrown(r) == [r EXCEPT !.thrown = TRUE]

\* failedCount++
CountFailed(r) == [r EXCEPT !.failedCount = r.failedCount + 1]

Summary_EnrichedOnly(r) ==
    [total |-> r.enrichedCount, enriched |-> r.enrichedCount, failed |-> r.failedCount]

\* return { total, enriched, failed }
Summary(r) == [total |-> Len(r.jobs), enriched |-> r.enrichedCount, failed |-> r.failedCount]

\* one turn of the loop over the results of the batch; after the last
\* result the cool-down is started or the loop head is reached
UpdateResult(updated) ==
    /\ run.pc = "updating"
    /\ LET k == run.i + run.j + 1
           fulfilled == fetch[k].st = "settled" /\ ~Falsy(fetch[k].value)
           success == fulfilled /\ updated
           last == k = (CHOOSE m \in BatchMembers(run.i, Len(run.jobs)) :
                           \A q \in BatchMembers(run.i, Len(run.jobs)) : q <= m)
           r == IF success THEN CountEnriched([run EXCEPT !.j = run.j + 1])
                ELSE CountFailed([run EXCEPT !.j = run.j + 1])
           f == [fetch EXCEPT ![k].bucket = IF success THEN "enriched" ELSE "failed"]
       IN  /\ updated \/ fulfilled
           /\ Anomaly(k, updated)
           /\ jobs' = IF success THEN UpdateDescription(jobs, run.jobs[k].id, fetch[k].value)
                      ELSE jobs
           /\ IF ~last
              THEN run' = r /\ fetch' = f /\ cadence' = cadence
              ELSE IF CoolDown(run.i, Len(run.jobs))
                   THEN run' = [r EXCEPT !.pc = "cooldown"] /\ fetch' = f /\ cadence' = cadence
                   ELSE LoopHead(r, f, cadence, run.i + BATCH_SIZE)
    /\ UNCHANGED outsideEnrich

\* the 5 seconds between batches have passed: i += BATCH_SIZE, loop head
CooldownElapsed ==
    /\ run.pc = "cooldown"
    /\ LoopHead(run, fetch, Append(cadence, DelayEvent), run.i + BATCH_SIZE)
    /\ UNCHANGED <<jobs, anomalies>>
    /\ UNCHANGED outsideEnrich

LoopThrows_NoFinally ==
    /\ run.pc \in {"updating", "cooldown"}
    /\ Anomaly(0, FALSE)
    /\ run' = [run EXCEPT !.pc = "threw", !.thrown = TRUE]
    /\ UNCHANGED <<jobs, fetch, cadence>>
    /\ UNCHANGED outsideEnrich

\* a statement of the loop body after the fetches throws: the try block is
\* left towards finally
LoopThrows ==
    /\ run.pc \in {"updating", "cooldown"}
    /\ Anomaly(0, FALSE)
    /\ run' = [run EXCEPT !.pc = "closing", !.thrown = TRUE]
    /\ UNCHANGED <<jobs, fetch, cadence>>
    /\ UNCHANGED outsideEnrich

\* finally: browser.close(); the summary is returned, or the exception
\* that left the loop goes on to the caller
CloseBrowser ==
    /\ run.pc = "closing"
    /\ run' = [run EXCEPT !.pc = IF run.thrown THEN "threw" ELSE "returned",
                          !.browser = "closed", !.closes = run.closes + 1]
    /\ UNCHANGED <<jobs, fetch, cadence, anomalies>>
    /\ UNCHANGED outsideEnrich

\* stored jobs the worker finds: n postings ingested with placeholder
\* descriptions, one month after the other, a posting that already has a
\* full description and the mock posting without a page
EnrichIds ==
    <<"e01", "e02", "e03", "e04", "e05", "e06", "e07", "e08", "e09", "e10",
      "e11", "e12", "e13", "e14", "e15", "e16">>

Placeholders ==
    <<<<>>, <<"View", "posting", "for", "details">>,
      <<"Job", "scraped", "from", "RemoteOK">>, Text51>>

SourceNames == <<<<"LinkedIn">>, <<"Indeed">>, <<"We", "Work", "Remotely">>, <<"RemoteOK">>>>

Posting(k) ==
    [id |-> EnrichIds[k], title |-> <<"Analyst", EnrichIds[k]>>, company |-> <<"Acme">>,
     location |-> <<>>, type |-> <<>>, salary |-> <<>>, posted |-> <<>>,
     description |-> Placeholders[(k % 4) + 1],
     url |-> <<"https://jobs/", EnrichIds[k]>>,
     source |-> SourceNames[(k % 4) + 1], easyApply |-> FALSE]

FullPosting == [Posting(15) EXCEPT !.description = Text120]
MockPosting == [Posting(16) EXCEPT !.url = <<"#">>]

InitEnrichStore ==
    \E n \in 0..MaxCandidates :
        /\ jobs = [k \in 1..n |-> InsertValues(Posting(k), k, k + RetentionMonths, k)]
                  \o <<InsertValues(FullPosting, 0, RetentionMonths, 0),
                       InsertValues(MockPosting, 0, RetentionMonths, 0)>>
        /\ now = 0

InitEnrichSpec ==
    InitEnrichStore /\ InitIngest /\ InitRead /\ InitEnrich /\ InitCrawl /\ InitOthers

NextEnrich ==
    \/ \E reachable \in BOOLEAN : Enrich(reachable)
    \/ \E launched \in BOOLEAN : Launch(launched)
    \/ \E k \in 1..Len(fetch), opened \in BOOLEAN : OpenPage(k, opened)
    \/ \E k \in 1..Len(fetch), outcome \in PageOutcomes : PageDone(k, outcome)
    \/ \E k \in 1..Len(fetch) : BackoffElapsed(k)
    \/ BatchSettled
    \/ \E updated \in BOOLEAN : UpdateResult(updated)
    \/ CooldownElapsed
    \/ LoopThrows
    \/ CloseBrowser

SpecEnrich == InitEnrichSpec /\ [][NextEnrich]_vars

----------------------------------------------------------------------------
(* Properties of the enrichment worker *)

StoredDescription(jobId) ==
    LET k == CHOOSE k \in SelectById(jobs, jobId) : TRUE IN jobs[k].description

BatchOf(k) == ((k - 1) \div BATCH_SIZE) + 1

Started(k) == fetch[k].st # "none"

\* C8: a run makes at most MAX_RETRIES + 1 fetch attempts for a job; a job
\* all of whose attempts fail (exception, null, or a description no longer
\* than the minimum viable length) is attempted exactly MAX_RETRIES + 1
\* times, is counted as failed, and keeps its stored description.
C8_RetryBound ==
    \A k \in 1..Len(fetch) :
        /\ fetch[k].attempts <= MAX_RETRIES + 1
        /\ (fetch[k].st = "settled" /\ Falsy(fetch[k].value))
           => /\ fetch[k].attempts = MAX_RETRIES + 1
              /\ fetch[k].bucket \in {"none", "failed"}
              /\ StoredDescription(run.jobs[k].id) = run.jobs[k].description
        /\ (run.pc \in {"closing", "returned"} /\ ~run.thrown /\ Falsy(fetch[k].value))
           => fetch[k].st = "settled" /\ fetch[k].bucket = "failed"

C8_Witness ==
    /\ run.pc = "returned"
    /\ \E k \in 1..Len(fetch) :
        /\ fetch[k].st = "settled"
        /\ Falsy(fetch[k].value)
        /\ fetch[k].attempts = MAX_RETRIES + 1
        /\ fetch[k].bucket = "failed"
        /\ run.failedCount = 1
        /\ StoredDescription(run.jobs[k].id) = run.jobs[k].description

\* C9: the batches of a run are the consecutive slices of BATCH_SIZE of the
\* candidate list, in order, ceil(n / BATCH_SIZE) of them when the run
\* returns, with one cool-down delay between consecutive batches and none
\* after the last.
C9_BatchCadence ==
    LET n == Len(run.jobs)
        batches == (n + BATCH_SIZE - 1) \div BATCH_SIZE
    IN  /\ \A p \in 1..Len(cadence) :
              IF p % 2 = 1
              THEN cadence[p] = BatchEvent(run, ((p - 1) \div 2) * BATCH_SIZE)
              ELSE cadence[p] = DelayEvent
        /\ Len(cadence) <= 2 * batches - 1 \/ n = 0
        /\ (run.pc = "returned" /\ n > 0) => Len(cadence) = 2 * batches - 1
        /\ n = 0 => cadence = <<>>

C9_Witness ==
    /\ run.pc = "returned"
    /\ Len(run.jobs) = 12
    /\ Len(cadence) = 5
    /\ Len(cadence[1].ids) = 5 /\ Len(cadence[3].ids) = 5 /\ Len(cadence[5].ids) = 2
    /\ cadence[2] = DelayEvent /\ cadence[4] = DelayEvent
    /\ cadence[5].ids = <<run.jobs[11].id, run.jobs[12].id>>

\* C10: when a fetch of a batch has started, every fetch of every earlier
\* batch has settled, its result has been processed and (for a fetched
\* description) written to the store, and the cool-down delay before the
\* batch has elapsed.
C10_StrictBatchOrder ==
    \A k \in 1..Len(fetch) :
        Started(k)
        => /\ \A q \in 1..((BatchOf(k) - 1) * BATCH_SIZE) :
                 /\ fetch[q].st = "settled"
                 /\ fetch[q].bucket # "none"
                 /\ fetch[q].bucket = "enriched"
                    => StoredDescription(run.jobs[q].id) = fetch[q].value
           /\ Len(cadence) >= 2 * BatchOf(k) - 1
           /\ BatchOf(k) > 1 => cadence[2 * BatchOf(k) - 2] = DelayEvent

C10_Witness ==
    /\ \E k \in 1..Len(fetch) : BatchOf(k) = 2 /\ fetch[k].st = "page"
    /\ \E q \in 1..BATCH_SIZE : fetch[q].attempts > 1 /\ fetch[q].bucket = "enriched"

InFlight(k) == fetch[k].st \in {"opening", "page", "backoff"}

\* C11: a run that launched a browser closes it exactly once, at its end,
\* whether it returns or the loop throws, and no fetch attempt is in flight
\* or can still start once the browser is closed.
C11_BrowserRelease ==
    /\ run.closes <= 1
    /\ run.browser = "closed" <=> run.closes = 1
    /\ (run.pc \in {"returned", "threw"} /\ run.browser # "none") => run.browser = "closed"
    /\ run.browser = "closed"
       => /\ run.pc \in {"returned", "threw"}
          /\ \A k \in 1..Len(fetch) : ~InFlight(k)

C11_Witness ==
    /\ run.pc = "threw"
    /\ run.thrown
    /\ run.browser = "closed"
    /\ run.closes = 1
    /\ \E k \in 1..Len(fetch) : fetch[k].st = "none"

\* C12: a fetch attempt holds at most one page context and has closed it
\* before it returns or retries, on the exception path as well; when the
\* run has returned no page context is open.
C12_PageRelease ==
    \A k \in 1..Len(fetch) :
        /\ fetch[k].open \in {0, 1}
        /\ fetch[k].open = 1 <=> fetch[k].st = "page"
        /\ run.pc \in {"closing", "returned", "threw"} => fetch[k].open = 0

C12_Witness ==
    /\ run.pc = "returned"
    /\ \E k \in 1..Len(fetch) :
        /\ fetch[k].attempts = MAX_RETRIES + 1
        /\ fetch[k].st = "settled"
        /\ fetch[k].open = 0
        /\ k \in anomalies

Bucket(name) == {k \in 1..Len(fetch) : fetch[k].bucket = name}

C14_WritesOnlyEnrichedDescriptions ==
    [][/\ Len(jobs') = Len(jobs)
       /\ \A i \in 1..Len(jobs) :
            \/ jobs'[i] = jobs[i]
            \/ /\ jobs'[i] = [jobs[i] EXCEPT !.description = jobs'[i].description]
               /\ jobs'[i].description # <<"Description", "not", "available">>
               /\ \E k \in 1..Len(fetch) :
                    /\ run.jobs[k].id = jobs[i].id
                    /\ fetch[k].bucket = "none"
                    /\ fetch'[k].bucket = "enriched"
                    /\ jobs'[i].description = fetch[k].value
       /\ \A k \in 1..Len(fetch') :
            fetch'[k].bucket = "failed"
            => \A i \in 1..Len(jobs') :
                 jobs'[i].id = run'.jobs[k].id
                 => jobs'[i].description = run'.jobs[k].description]_vars

C14_Witness ==
    /\ run.pc = "returned"
    /\ \E k \in Bucket("enriched") :
        /\ StoredDescription(run.jobs[k].id) = fetch[k].value
        /\ StoredDescription(run.jobs[k].id) # run.jobs[k].description
    /\ \E k \in Bucket("failed") :
        /\ fetch[k].attempts = MAX_RETRIES + 1
        /\ StoredDescription(run.jobs[k].id) = run.jobs[k].description

\* the candidates could not be read: the only run-level failure that
\* leaves the run without candidates
StoreUnreachable == 0 \in anomalies /\ run.jobs = <<>> /\ run.pc # "idle"

\* C15: a run whose read of the candidates failed because the store was
\* unreachable ends by throwing to its caller, not by returning a summary.
C15_StoreFailurePropagated ==
    StoreUnreachable => run.pc = "threw"

\* C27: an attempt is retried exactly when what it extracted is null or
\* shorter than 50 characters: a description of 50 or more characters is
\* accepted on the attempt that extracted it, a shorter one never is.
C27_ViableLengthBoundary ==
    \A k \in DOMAIN fetch :
        /\ length(fetch[k].description) >= MinViableLength
           => fetch[k].st = "settled" /\ fetch[k].value = fetch[k].description
        /\ (fetch[k].st = "settled" /\ ~Falsy(fetch[k].value))
           => length(fetch[k].value) >= MinViableLength

RECURSIVE OpenPages(_)
OpenPages(f) == IF f = <<>> THEN 0 ELSE Head(f).open + OpenPages(Tail(f))

\* C28: at every moment of a run at most BATCH_SIZE page contexts are open,
\* retries included.
C28_BoundedParallelism ==
    OpenPages(fetch) <= BATCH_SIZE

\* a full batch has its pages open, one of them on a retry, and more
\* candidates are waiting
C28_Witness ==
    /\ OpenPages(fetch) = BATCH_SIZE
    /\ Len(fetch) > BATCH_SIZE
    /\ \E k \in DOMAIN fetch : fetch[k].retryCount > 0 /\ fetch[k].open = 1

----------------------------------------------------------------------------
(* Crawl scheduler: the popup of the browser extension *)

\* common-geoids.json: the cities of each state, in the order of the file
StateKeys == <<"al", "wy">>
commonGeoIds == [al |-> <<"A", "B">>, wy |-> <<>>]

\* config.keywords of the config.json the popup may be shipped with
KeywordLists == {<<>>, <<"x">>, <<"x", "y">>}

\* selectedLocations = [...selectedLocations, ...cities] over the states
RECURSIVE Cities(_)
Cities(keys) ==
    IF keys = <<>> THEN <<>> ELSE commonGeoIds[Head(keys)] \o Cities(Tail(keys))

\* the checked boxes, in the order of the document
CheckedStates(checked) == SelectSeq(StateKeys, LAMBDA key : key \in checked)

\* an await, a timer or a callback that is outstanding, with the location
\* and the keyword its search was started for
Continuation(at, l, k) == [at |-> at, l |-> l, k |-> k]

Put(bag, t) == bag (+) SetToBag({t})
Take(bag, t) == bag (-) SetToBag({t})

Event(ev, l, k) == [ev |-> ev, l |-> l, k |-> k]

Events(kinds) == {p \in 1..Len(trail) : trail[p].ev \in kinds}

\* the clicks taken so far; the failures of the browser and the pages
\* without jobs met so far; the length of the trail up to which a
\* navigation is still followed
MayClick == Cardinality(Events({"start", "stop", "refused"})) < MaxClicks
MayFail == Cardinality(Events({"error", "unhandled", "empty"})) < MaxCrawlFaults
MayNavigate == Len(trail) < MaxTrail

\* a job card of the result page of a search
Card(l, k) == <<l, k>>

\* uploadToDatabase(): fetch(..., body: JSON.stringify(allJobs)), the batch
\* as it is when the call is made
Upload(batch) == [ev |-> "upload", l |-> "-", k |-> "-", jobs |-> batch]

\* scrapeNextLocation(), up to its first await; a location to search has at
\* least its first keyword to go to; when done, the batch collected is
\* uploaded if the autoUpload box is checked and there are jobs
scrapeNextLocation(running, locs, li, ki, rest, tr) ==
    IF ~running \/ li >= Len(locs)
    THEN /\ isRunning' = FALSE
         /\ currentLocationIndex' = li
         /\ currentKeywordIndex' = ki
         /\ pending' = rest
         /\ \E autoUpload \in BOOLEAN :
               trail' = IF autoUpload /\ Len(allJobs') > 0
                        THEN tr \o <<Event("complete", "-", "-"), Upload(allJobs')>>
                        ELSE Append(tr, Event("complete", "-", "-"))
    ELSE /\ isRunning' = running
         /\ currentLocationIndex' = li
         /\ currentKeywordIndex' = 0
         /\ pending' = Put(rest, Continuation("tabsQuery", locs[li + 1], config.keywords[1]))
         /\ trail' = tr

\* scrapeNextKeyword(), up to its first await
scrapeNextKeyword(running, locs, li, ki, rest, tr) ==
    IF ~running
    THEN /\ pending' = rest
         /\ trail' = tr
         /\ UNCHANGED <<isRunning, currentLocationIndex, currentKeywordIndex>>
    ELSE IF li >= Len(locs)
    THEN /\ pending' = rest
         /\ trail' = Append(tr, Event("unhandled", "-", "-"))
         /\ UNCHANGED <<isRunning, currentLocationIndex, currentKeywordIndex>>
    ELSE IF ki >= Len(config.keywords)
    THEN scrapeNextLocation(running, locs, li + 1, ki, rest, tr)
    ELSE /\ pending' = Put(rest, Continuation("tabsQuery", locs[li + 1], config.keywords[ki + 1]))
         /\ trail' = tr
         /\ UNCHANGED <<isRunning, currentLocationIndex, currentKeywordIndex>>

\* the catch of scrapeNextKeyword: showError, currentKeywordIndex++, and
\* scrapeNextKeyword again after 2 seconds
NavigationError(t) ==
    /\ currentKeywordIndex' = currentKeywordIndex + 1
    /\ pending' = Put(Take(pending, t), Continuation("retry", "-", "-"))
    /\ trail' = Append(trail, Event("error", t.l, t.k))
    /\ UNCHANGED <<config, selectedLocations, isRunning, currentLocationIndex, allJobs, tab>>

\* click on Start
startBtn(mode, checked) ==
    /\ ~isRunning
    /\ MayClick
    /\ IF \/ Len(config.keywords) = 0
          \/ mode = "select" /\ CheckedStates(checked) = <<>>
       THEN /\ trail' = Append(trail, Event("refused", "-", "-"))
            /\ UNCHANGED <<selectedLocations, isRunning, currentLocationIndex,
                           currentKeywordIndex, allJobs, pending>>
       ELSE LET locs == Cities(IF mode = "all" THEN StateKeys ELSE CheckedStates(checked))
            IN  /\ selectedLocations' = locs
                /\ allJobs' = <<>>
                /\ scrapeNextLocation(TRUE, locs, 0, 0, pending,
                                      Append(trail, Event("start", "-", "-")))
    /\ UNCHANGED <<config, tab>>
    /\ UNCHANGED outsideCrawl

\* click on Stop
stopBtn ==
    /\ isRunning
    /\ MayClick
    /\ isRunning' = FALSE
    /\ trail' = Append(trail, Event("stop", "-", "-"))
    /\ UNCHANGED <<config, selectedLocations, currentLocationIndex, currentKeywordIndex,
                   allJobs, tab, pending>>
    /\ UNCHANGED outsideCrawl

\* the callbacks the bag still holds when only the pages in the set can
\* answer: the message port to a page closes when the tab leaves it
Answering(bag, pages) ==
    LET kept == {t \in BagToSet(bag) :
                    t.at = "response" => [l |-> t.l, k |-> t.k] \in pages}
    IN  [t \in kept |-> bag[t]]

\* scrapeNextKeyword: await chrome.tabs.query settles; with a tab the
\* navigation is issued by chrome.tabs.update
TabsQueryDone(t, outcome) ==
    /\ t \in BagToSet(pending)
    /\ t.at = "tabsQuery"
    /\ MayNavigate
    /\ outcome = "tab" \/ MayFail
    /\ CASE outcome = "tab" ->
              /\ tab' = [l |-> t.l, k |-> t.k]
              /\ pending' = Put(Answering(Take(pending, t), {}),
                                Continuation("tabsUpdate", t.l, t.k))
              /\ trail' = IF Answering(pending, {}) = pending
                           THEN Append(trail, Event("nav", t.l, t.k))
                           ELSE trail \o <<Event("lost", tab.l, tab.k), Event("nav", t.l, t.k)>>
              /\ UNCHANGED <<config, selectedLocations, isRunning, currentLocationIndex,
                             currentKeywordIndex, allJobs>>
         [] outcome = "none" ->
              /\ pending' = Take(pending, t)
              /\ trail' = Append(trail, Event("error", t.l, t.k))
              /\ UNCHANGED <<config, selectedLocations, isRunning, currentLocationIndex,
                             currentKeywordIndex, allJobs, tab>>
         [] outcome = "throws" -> NavigationError(t)
    /\ UNCHANGED outsideCrawl

\* scrapeNextKeyword: await chrome.tabs.update settles; the 5 seconds for
\* the page to load start
TabsUpdateDone(t, updated) ==
    /\ t \in BagToSet(pending)
    /\ t.at = "tabsUpdate"
    /\ updated \/ MayFail
    /\ IF updated
       THEN /\ pending' = Put(Take(pending, t), Continuation("settle", t.l, t.k))
            /\ UNCHANGED <<config, selectedLocations, isRunning, currentLocationIndex,
                           currentKeywordIndex, allJobs, tab, trail>>
       ELSE NavigationError(t)
    /\ UNCHANGED outsideCrawl

\* the 5 seconds have passed: the callback leaves when the crawl is not
\* running, else scrapeCurrentPage runs up to its await
SettleElapsed(t) ==
    /\ t \in BagToSet(pending)
    /\ t.at = "settle"
    /\ pending' = IF isRunning THEN Put(Take(pending, t), Continuation("pageQuery", t.l, t.k))
                  ELSE Take(pending, t)
    /\ UNCHANGED <<config, selectedLocations, isRunning, currentLocationIndex,
                   currentKeywordIndex, allJobs, tab, trail>>
    /\ UNCHANGED outsideCrawl
MoveToNextKeyword_Skip(rest) ==
    /\ currentKeywordIndex' = currentKeywordIndex + 2
    /\ pending' = Put(rest, Continuation("next", "-", "-"))

\* after await scrapeCurrentPage(): currentKeywordIndex++ and the timer of
\* config.delayBetweenSearches before scrapeNextKeyword
MoveToNextKeyword(rest) ==
    /\ currentKeywordIndex' = currentKeywordIndex + 1
    /\ pending' = Put(rest, Continuation("next", "-", "-"))

\* scrapeCurrentPage: await chrome.tabs.query settles; with a tab the
\* content script of the page in the tab is asked for its jobs and the
\* answer is left to the callback
PageQueryDone(t, outcome) ==
    /\ t \in BagToSet(pending)
    /\ t.at = "pageQuery"
    /\ outcome = "tab" \/ MayFail
    /\ CASE outcome = "tab" ->
              /\ MoveToNextKeyword(Put(Take(pending, t), Continuation("response", tab.l, tab.k)))
              /\ trail' = Append(trail, Event("extract", t.l, t.k))
         [] outcome = "none" ->
              /\ MoveToNextKeyword(Take(pending, t))
              /\ trail' = Append(trail, Event("error", t.l, t.k))
         [] outcome = "throws" ->
              /\ pending' = Take(pending, t)
              /\ trail' = Append(trail, Event("unhandled", t.l, t.k))
              /\ UNCHANGED currentKeywordIndex
    /\ UNCHANGED <<config, selectedLocations, isRunning, currentLocationIndex, allJobs, tab>>
    /\ UNCHANGED outsideCrawl

\* the callback of chrome.tabs.sendMessage: the jobs of the page are
\* appended to allJobs, or the page has none, or the message failed
ResponseReceived(t, outcome) ==
    /\ t \in BagToSet(pending)
    /\ t.at = "response"
    /\ pending' = Take(pending, t)
    /\ CASE outcome = "jobs" ->
              /\ tab = [l |-> t.l, k |-> t.k]
              /\ allJobs' = allJobs \o <<Card(t.l, t.k)>>
              /\ trail' = trail
         [] outcome = "empty" ->
              /\ tab = [l |-> t.l, k |-> t.k]
              /\ MayFail
              /\ trail' = Append(trail, Event("empty", t.l, t.k))
              /\ UNCHANGED allJobs
         [] outcome = "lastError" ->
              /\ MayFail
              /\ trail' = Append(trail, Event("error", t.l, t.k))
              /\ UNCHANGED allJobs
    /\ UNCHANGED <<config, selectedLocations, isRunning, currentLocationIndex,
                   currentKeywordIndex, tab>>
    /\ UNCHANGED outsideCrawl

\* the delay before the next search has passed: if (isRunning) scrapeNextKeyword()
DelayElapsed(t) ==
    /\ t \in BagToSet(pending)
    /\ t.at \in {"next", "retry"}
    /\ UNCHANGED <<config, selectedLocations, allJobs, tab>>
    /\ scrapeNextKeyword(isRunning, selectedLocations, currentLocationIndex,
                         currentKeywordIndex, Take(pending, t), trail)
    /\ UNCHANGED outsideCrawl

InitCrawlSpec ==
    /\ config \in {[keywords |-> keywords] : keywords \in KeywordLists}
    /\ InitPopup
    /\ InitStore /\ InitIngest /\ InitRead /\ InitEnrich /\ InitOthers

Awaits == {"tab", "none", "throws"}

NextCrawl ==
    \/ \E mode \in {"all", "select"}, checked \in SUBSET {"al", "wy"} :
          startBtn(mode, checked)
    \/ stopBtn
    \/ \E t \in BagToSet(pending), outcome \in Awaits : TabsQueryDone(t, outcome)
    \/ \E t \in BagToSet(pending), updated \in BOOLEAN : TabsUpdateDone(t, updated)
    \/ \E t \in BagToSet(pending) : SettleElapsed(t)
    \/ \E t \in BagToSet(pending), outcome \in Awaits : PageQueryDone(t, outcome)
    \/ \E t \in BagToSet(pending), outcome \in {"jobs", "empty", "lastError"} :
          ResponseReceived(t, outcome)
    \/ \E t \in BagToSet(pending) : DelayElapsed(t)

SpecCrawl == InitCrawlSpec /\ [][NextCrawl]_vars

----------------------------------------------------------------------------
(* Properties of the crawl scheduler *)

Search(e) == [l |-> e.l, k |-> e.k]

\* the searches navigated to, in the order of the navigations
Navigations ==
    LET navs == SelectSeq(trail, LAMBDA e : e.ev = "nav")
    IN  [p \in 1..Len(navs) |-> Search(navs[p])]

\* all keywords in order for the first location, then the next location
RowMajor(locs, keywords) ==
    [p \in 1..(Len(locs) * Len(keywords)) |->
        [l |-> locs[((p - 1) \div Len(keywords)) + 1],
         k |-> keywords[((p - 1) % Len(keywords)) + 1]]]

\* one start, no stop and no failure of the browser
Uninterrupted ==
    /\ Cardinality(Events({"start"})) = 1
    /\ Events({"stop", "error", "unhandled"}) = {}

\* the steps whose navigation is issued and whose extraction and index
\* advance are still to come
StepsInFlight(searches) ==
    BagCardinality([t \in {c \in BagToSet(pending) :
                              /\ c.at \in {"tabsUpdate", "settle", "pageQuery"}
                              /\ Search(c) \in searches} |-> pending[t]])

Searches == {[l |-> l, k |-> k] : l \in {"A", "B"}, k \in {"x", "y"}}

Count(kinds, search) ==
    Cardinality({p \in Events(kinds) : Search(trail[p]) = search})

\* C16: in an uninterrupted crawl the navigations are issued in row-major
\* order over locations and keywords, and when the crawl is complete there
\* has been exactly one per (location, keyword) pair.
C16_TraversalOrder ==
    Uninterrupted
    => LET all == RowMajor(selectedLocations, config.keywords)
       IN  /\ Len(Navigations) <= Len(all)
           /\ Navigations = SubSeq(all, 1, Len(Navigations))
           /\ Events({"complete"}) # {} => Navigations = all

C16_Witness ==
    /\ Uninterrupted
    /\ Events({"complete"}) # {}
    /\ ~isRunning
    /\ Navigations = <<[l |-> "A", k |-> "x"], [l |-> "A", k |-> "y"],
                       [l |-> "B", k |-> "x"], [l |-> "B", k |-> "y"]>>

\* C17: at most one step of the crawl is in flight: no navigation is issued
\* while another step has navigated and not yet extracted and advanced.
C17_NoOverlappingSteps ==
    StepsInFlight(Searches) <= 1

\* C18: after a click on Stop no navigation is issued until the next click
\* on Start.
C18_StopIssuesNoSearch ==
    \A p \in Events({"stop"}), q \in Events({"nav"}) :
        p < q => \E r \in Events({"start"}) : p < r /\ r < q

\* C19: a step whose navigation was issued is carried through to its
\* extraction even when Stop is clicked meanwhile: every navigation is
\* followed by the extraction of its page (or by an error of the browser),
\* or its step is still in flight.
C19_StopLetsStepFinish ==
    \A search \in Searches :
        Count({"nav"}, search)
        <= Count({"extract", "error", "unhandled"}, search) + StepsInFlight({search})

\* C20: a crawl is only ever started with at least one keyword and at least
\* one location; Start with an empty list of either is refused and leaves
\* the popup as it was.
C20_StartRejectsEmptyInput ==
    /\ Events({"start"}) # {} => selectedLocations # <<>> /\ config.keywords # <<>>
    /\ (Events({"start"}) = {} /\ Events({"refused"}) # {})
       => /\ ~isRunning
          /\ currentLocationIndex = 0 /\ currentKeywordIndex = 0
          /\ allJobs = <<>> /\ pending = EmptyBag /\ Navigations = <<>>

\* C21: a failure of the navigation or of the extraction at one step does
\* not halt the crawl: while the crawl is running and a step has failed,
\* the scheduler still holds a continuation that leads to the next step.
C21_ErrorPolicy ==
    (isRunning /\ Events({"error", "unhandled"}) # {})
    => \E t \in BagToSet(pending) : t.at # "response"

----------------------------------------------------------------------------
(* Field extractors: content script (LinkedIn, Indeed), We Work Remotely,   *)
(* RemoteOK                                                                 *)

\* A document is a site and the cards (list items, rows) its card selector
\* finds.  What a selector matches inside a card is a sequence: empty when
\* querySelector returns null, else the one element.  An SVG element has no
\* innerText: reading it gives undefined and trim() on it raises.
MaxTiers == 2
MaxCards == 2
MaxScrapes == 2

Randoms == {"r1", "r2"}
Digits == {"4001", "4002"}

Element(text, tagName, href) ==
    [innerText |-> text, tagName |-> tagName, href |-> href, svg |-> FALSE,
     dataJk |-> <<>>, id |-> <<>>]

\* description: 'View posting for details'
ViewPostingNote == <<"View", "posting", "for", "details">>

\* description: 'Job scraped from We Work Remotely. Click Apply to see full details.'
WeWorkRemotelyNote ==
    <<"Job", "scraped", "from", "We", "Work", "Remotely.",
      "Click", "Apply", "to", "see", "full", "details.">>

\* description: 'Job scraped from RemoteOK. Click Apply to see full details.'
RemoteOKNote ==
    <<"Job", "scraped", "from", "RemoteOK.", "Click", "Apply", "to", "see", "full", "details.">>

UnknownTitle == <<"Unknown", "Title">>
UnknownCompany == <<"Unknown", "Company">>
RemoteUnknown == <<"Remote/Unknown">>
UnknownLocation == <<"Unknown", "Location">>
NotListed == <<"Not", "listed">>

\* an exception leaves the function; a sequence of records is returned
Threw == [threw |-> TRUE, jobs |-> <<>>]
Returned(found) == [threw |-> FALSE, jobs |-> found]

\* for (const selector of selectors) { el = card.querySelector(selector);
\*                                     if (el) break; }
RECURSIVE FirstMatch(_)
FirstMatch(matches) ==
    IF matches = <<>> THEN <<>>
    ELSE IF Head(matches) # <<>> THEN Head(matches)
    ELSE FirstMatch(Tail(matches))

\* element.innerText.trim() raises a TypeError
InnerTextThrows(el) == el # <<>> /\ el[1].svg

\* sentinel, or element.innerText.trim() of the element found
TextOr(el, sentinel) == IF el = <<>> THEN sentinel ELSE trim(el[1].innerText)

\* link.match(/\/jobs\/view\/(\d+)/): the digits, or nothing
JobsViewId(link) ==
    LET at == {i \in 1..(Len(link) - 1) : link[i] = "/jobs/view/" /\ link[i + 1] \in Digits}
    IN  IF at = {} THEN <<>>
        ELSE <<link[(CHOOSE i \in at : \A j \in at : i <= j) + 1]>>

\* scrapeLinkedIn: the body of the try for one card
LinkedInCard(card, random) ==
    LET titleElement == FirstMatch(card.title)
        companyElement == FirstMatch(card.company)
        locationElement == FirstMatch(card.location)
    IN  IF \E el \in {titleElement, companyElement, locationElement} : InnerTextThrows(el)
        THEN Threw
        ELSE LET title == TextOr(titleElement, UnknownTitle)
                 link == IF titleElement = <<>> THEN <<"#">>
                         ELSE IF titleElement[1].tagName = "a" THEN titleElement[1].href
                         ELSE IF card.linkAnchor # <<>> THEN card.linkAnchor[1].href
                         ELSE <<"#">>
                 attribute == Or(card.dataJobId, Or(card.dataOccludableJobId, card.nestedJobId))
                 jobId == IF ~Falsy(attribute) THEN attribute
                          ELSE IF JobsViewId(link) # <<>> THEN JobsViewId(link)
                          ELSE <<"li-", random>>
             IN  IF title # UnknownTitle
                 THEN Returned(<<[id |-> jobId, title |-> title,
                                  company |-> TextOr(companyElement, UnknownCompany),
                                  location |-> TextOr(locationElement, RemoteUnknown),
                                  salary |-> NotListed, easyApply |-> FALSE,
                                  url |-> link, image |-> <<>>,
                                  source |-> <<"LinkedIn">>]>>)
                 ELSE Returned(<<>>)

\* item.innerText.toLowerCase() includes one of the words
Mentions(text, words) == \E i \in DOMAIN text : text[i] \in words

\* the last item of the list that mentions one of the words, or the default
LastMention(items, words, default) ==
    LET at == {i \in DOMAIN items : Mentions(items[i], words)}
    IN  IF at = {} THEN default
        ELSE trim(items[CHOOSE i \in at : \A j \in at : j <= i])

\* String.prototype.replace(tok, ''): the first occurrence is removed
RemoveFirst(text, tok) ==
    LET at == {i \in DOMAIN text : text[i] = tok}
    IN  IF at = {} THEN text
        ELSE LET i == CHOOSE i \in at : \A j \in at : i <= j
             IN  SubSeq(text, 1, i - 1) \o SubSeq(text, i + 1, Len(text))

\* scrapeIndeed: the body of the try for one card
IndeedCard(card, random) ==
    LET titleElement == FirstMatch(card.title)
        companyElement == FirstMatch(card.company)
        locationElement == FirstMatch(card.location)
    IN  IF \E el \in {titleElement, companyElement, locationElement} : InnerTextThrows(el)
        THEN Threw
        ELSE LET title == TextOr(titleElement, UnknownTitle)
                 href == IF titleElement = <<>> THEN <<"#">>
                         ELSE Or(titleElement[1].href, <<"#">>)
                 link == IF Head(href) = "/" THEN <<"https://www.indeed.com">> \o href
                         ELSE href
                 jobId == IF titleElement = <<>> THEN <<"ind-", random>>
                          ELSE IF ~Falsy(titleElement[1].dataJk) THEN titleElement[1].dataJk
                          ELSE IF ~Falsy(titleElement[1].id)
                               THEN RemoveFirst(titleElement[1].id, "job_")
                          ELSE <<"ind-", random>>
             IN  IF title # UnknownTitle
                 THEN Returned(<<[id |-> jobId, title |-> title,
                                  company |-> TextOr(companyElement, UnknownCompany),
                                  location |-> TextOr(locationElement, UnknownLocation),
                                  type |-> LastMention(card.metadata,
                                                       {"full-time", "contract", "part-time"},
                                                       <<"Full-time">>),
                                  salary |-> LastMention(card.metadata,
                                                         {"$90k", "year", "hour"}, NotListed),
                                  url |-> link,
                                  description |-> ViewPostingNote,
                                  source |-> <<"Indeed">>]>>)
                 ELSE Returned(<<>>)

Caught_Rethrow(parsed) == parsed

\* catch (e) { console.error(...) } around the body: the card is skipped
Caught(parsed) == IF parsed.threw THEN Returned(<<>>) ELSE parsed

RECURSIVE Concat(_)
Concat(seqs) == IF seqs = <<>> THEN <<>> ELSE Head(seqs) \o Concat(Tail(seqs))

\* forEach over the cards: the records pushed, in the order of the cards,
\* unless the callback let an exception out
Collect(parsed) ==
    IF \E k \in DOMAIN parsed : parsed[k].threw THEN Threw
    ELSE Returned(Concat([k \in DOMAIN parsed |-> parsed[k].jobs]))

\* the cards the card selectors of an extractor find in the document
CardsOf(doc, site) == IF doc.site = site THEN doc.cards ELSE <<>>

scrapeLinkedIn(doc, randoms) ==
    LET jobCards == CardsOf(doc, "linkedin")
    IN  Collect([k \in DOMAIN jobCards |-> Caught(LinkedInCard(jobCards[k], randoms[k]))])

scrapeIndeed(doc, randoms) ==
    LET jobCards == CardsOf(doc, "indeed")
    IN  Collect([k \in DOMAIN jobCards |-> Caught(IndeedCard(jobCards[k], randoms[k]))])

\* Pass 1: LinkedIn, pass 2: Indeed
scrapeJobsFromPage(doc, randoms) ==
    LET linkedInJobs == scrapeLinkedIn(doc, randoms)
        indeedJobs == scrapeIndeed(doc, randoms)
    IN  IF linkedInJobs.threw \/ indeedJobs.threw THEN Threw
        ELSE Returned(linkedInJobs.jobs \o indeedJobs.jobs)

\* page.evaluate of scrapeWeWorkRemotely: the callback of jobNodes.forEach
WeWorkRemotelyNode(node, random) ==
    IF node.anchor = <<>> THEN Returned(<<>>)
    ELSE IF node.title # <<>> /\ node.company # <<>>
    THEN IF \E el \in {node.title, node.company, node.region} : InnerTextThrows(el)
         THEN Threw
         ELSE Returned(<<[id |-> <<"wwr-", random>>,
                          title |-> trim(node.title[1].innerText),
                          company |-> trim(node.company[1].innerText),
                          location |-> TextOr(node.region, <<"Remote">>),
                          type |-> <<"Full-Time">>, salary |-> <<"See", "details">>,
                          posted |-> <<"Recently">>,
                          description |-> WeWorkRemotelyNote,
                          url |-> <<"https://weworkremotely.com">> \o node.anchor[1].href,
                          source |-> <<"We", "Work", "Remotely">>]>>)
    ELSE Returned(<<>>)

\* catch (error) { return []; } of the scrapers of the server
OrNone(evaluated) == IF evaluated.threw THEN Returned(<<>>) ELSE evaluated

\* scrapeWeWorkRemotely: puppeteer.launch is awaited before the try
scrapeWeWorkRemotely(doc, launched, randoms) ==
    LET jobNodes == CardsOf(doc, "wwr")
    IN  IF ~launched THEN Threw
        ELSE OrNone(Collect([k \in DOMAIN jobNodes |->
                                WeWorkRemotelyNode(jobNodes[k], randoms[k])]))

\* page.evaluate of scrapeRemoteOK: the callback of jobRows.forEach
RemoteOKRow(row) ==
    IF row.doNotExpand THEN Returned(<<>>)
    ELSE IF row.title # <<>> /\ row.company # <<>>
    THEN LET priced == {i \in DOMAIN row.tags : Mentions(row.tags[i], {"$90k"})}
             locations == SelectSeq(row.tags, LAMBDA tag : ~Mentions(tag, {"$90k"}))
             salary == IF priced = {} THEN <<"Competitive">>
                       ELSE row.tags[CHOOSE i \in priced : \A j \in priced : j <= i]
             jobUrl == IF ~Falsy(row.dataHref) THEN <<"https://remoteok.com">> \o row.dataHref
                       ELSE IF row.preventLink # <<>> /\ ~Falsy(row.preventLink[1].href)
                            THEN <<"https://remoteok.com">> \o row.preventLink[1].href
                       ELSE IF ~Falsy(row.dataId) THEN <<"https://remoteok.com/l/">> \o row.dataId
                       ELSE <<>>
         IN  IF \/ InnerTextThrows(row.title) \/ InnerTextThrows(row.company)
                \/ Falsy(row.dataHref) /\ ~Falsy(row.dataUrl)
             THEN Threw
             ELSE Returned(<<[id |-> <<"rok-">> \o Or(row.dataId, <<"null">>),
                              title |-> trim(row.title[1].innerText),
                              company |-> trim(row.company[1].innerText),
                              location |-> IF locations = <<>> THEN <<"Remote">>
                                           ELSE Head(locations),
                              type |-> <<"Contract/Full-time">>, salary |-> salary,
                              posted |-> <<"Recently">>,
                              description |-> RemoteOKNote,
                              url |-> jobUrl,
                              source |-> <<"RemoteOK">>]>>)
    ELSE Returned(<<>>)

\* scrapeRemoteOK: puppeteer.launch is awaited before the try
scrapeRemoteOK(doc, launched) ==
    LET jobRows == CardsOf(doc, "rok")
    IN  IF ~launched THEN Threw
        ELSE OrNone(Collect([k \in DOMAIN jobRows |-> RemoteOKRow(jobRows[k])]))

\* the documents the extractors are applied to
Blank == <<" ">>
TierText(field, i) == <<field, ToString(i)>>
JobLink(digits) == <<"https://www.linkedin.com", "/jobs/view/", digits>>
Svg == [Element(<<>>, "svg", <<>>) EXCEPT !.svg = TRUE]

\* what selector i of a field can match: nothing, an element without text,
\* an element with text
Matches(field, i) ==
    {<<>>, <<Element(Blank, "span", <<>>)>>, <<Element(TierText(field, i), "span", <<>>)>>}

TitleMatches(i) ==
    Matches("title", i)
    \cup {<<Element(TierText("title", i), "a", JobLink("4001"))>>, <<Svg>>}

CompanyMatches(i) == Matches("company", i)
LocationMatches(i) == Matches("location", i)

Cascades(M(_)) ==
    {m \in [1..MaxTiers -> UNION {M(i) : i \in 1..MaxTiers}] :
        \A i \in 1..MaxTiers : m[i] \in M(i)}

\* the first selector matches an element with text, the others nothing
Plain(M(_)) == [i \in 1..MaxTiers |-> IF i = 1 THEN CHOOSE m \in M(1) :
                                          m # <<>> /\ m[1].innerText # Blank /\ m[1].tagName = "span"
                                      ELSE <<>>]

\* a[href*="/jobs/view/"] finds an anchor of the card when one is there
LinkedInCards ==
    {card \in [title : Cascades(TitleMatches), company : Cascades(CompanyMatches),
               location : Cascades(LocationMatches),
               dataJobId : {<<>>, <<"4002">>}, dataOccludableJobId : {<<>>},
               nestedJobId : {<<>>},
               linkAnchor : {<<>>, <<Element(<<>>, "a", JobLink("4001"))>>}] :
        (\E i \in 1..MaxTiers : card.title[i] # <<>> /\ card.title[i][1].tagName = "a")
        => card.linkAnchor # <<>>}

PlainLinkedInCards ==
    {card \in LinkedInCards :
        /\ card.company = Plain(CompanyMatches)
        /\ card.location = Plain(LocationMatches)
        /\ card.linkAnchor = <<>>}

IndeedLink == <<"https://www.indeed.com", "/viewjob?jk=", "jk9">>

IndeedTitles ==
    {<<>>, <<Element(Blank, "a", IndeedLink)>>, <<Svg>>,
     <<Element(<<"Analyst">>, "a", IndeedLink)>>,
     <<Element(<<"Analyst">>, "a", <<"/", "viewjob?jk=", "jk9">>)>>,
     <<[Element(<<"Analyst">>, "a", IndeedLink) EXCEPT !.dataJk = <<"jk9">>]>>,
     <<[Element(<<"Analyst">>, "a", IndeedLink) EXCEPT !.id = <<"job_", "jk9">>]>>}

IndeedCards ==
    [title : {<<t>> : t \in IndeedTitles},
     company : {<<<<>>>>, <<<<Element(<<"Acme">>, "span", <<>>)>>>>},
     location : {<<<<>>>>, <<<<Element(<<"Austin">>, "div", <<>>)>>>>},
     metadata : {<<>>, <<<<"$90k", "a", "year">>, <<"contract">>>>}]

PlainIndeedCards ==
    {card \in IndeedCards : card.company # <<<<>>>> /\ card.location # <<<<>>>>
                            /\ card.metadata = <<>>}

WeWorkRemotelyNodes ==
    [anchor : {<<>>, <<Element(<<>>, "a", <<"/remote-jobs/", "acme-analyst">>)>>},
     title : {<<>>, <<Element(<<"Analyst">>, "span", <<>>)>>, <<Svg>>},
     company : {<<>>, <<Element(<<"Acme">>, "span", <<>>)>>},
     region : {<<>>, <<Element(<<"Austin">>, "span", <<>>)>>}]

PlainWeWorkRemotelyNodes ==
    {node \in WeWorkRemotelyNodes : node.company # <<>> /\ node.region # <<>>}

RemoteOKRows ==
    [doNotExpand : BOOLEAN,
     title : {<<>>, <<Element(<<"Analyst">>, "h2", <<>>)>>},
     company : {<<>>, <<Element(<<"Acme">>, "h3", <<>>)>>},
     dataId : {<<>>, <<"77">>},
     dataHref : {<<>>, <<"/remote-jobs/", "77">>},
     dataUrl : {<<>>, <<"/remote-jobs/", "77">>},
     preventLink : {<<>>, <<Element(<<>>, "a", <<"/remote-jobs/", "77">>)>>},
     tags : {<<>>, <<<<"Worldwide">>, <<"$90k">>>>}]

PlainRemoteOKRows ==
    {row \in RemoteOKRows :
        /\ ~row.doNotExpand /\ row.title # <<>> /\ row.company # <<>>
        /\ row.dataUrl = <<>> /\ row.preventLink = <<>> /\ row.dataHref # <<>>}

\* the documents of a site: any one card, or several of the plain cards
Documents(site, cards, plain) ==
    {[site |-> site, cards |-> c] :
        c \in {<<card>> : card \in cards} \cup UNION {[1..n -> plain] : n \in 2..MaxCards}}

Pages ==
    Documents("linkedin", LinkedInCards, PlainLinkedInCards)
    \cup Documents("indeed", IndeedCards, PlainIndeedCards)
    \cup Documents("wwr", WeWorkRemotelyNodes, PlainWeWorkRemotelyNodes)
    \cup Documents("rok", RemoteOKRows, PlainRemoteOKRows)
    \cup {[site |-> "other", cards |-> <<>>]}

Scrape(by, result) == [by |-> by, threw |-> result.threw, jobs |-> result.jobs]

\* the listener of the content script answers scrape_jobs with the jobs of
\* the page; an exception would leave it without an answer
OnMessage(randoms) ==
    /\ Len(scraped) < MaxScrapes
    /\ scraped' = Append(scraped, Scrape("content", scrapeJobsFromPage(page, randoms)))
    /\ UNCHANGED page
    /\ UNCHANGED outsideScrape

ScrapeWeWorkRemotely(launched, randoms) ==
    /\ page.site = "wwr"
    /\ Len(scraped) < MaxScrapes
    /\ scraped' = Append(scraped, Scrape("wwr", scrapeWeWorkRemotely(page, launched, randoms)))
    /\ UNCHANGED page
    /\ UNCHANGED outsideScrape

ScrapeRemoteOK(launched) ==
    /\ page.site = "rok"
    /\ Len(scraped) < MaxScrapes
    /\ scraped' = Append(scraped, Scrape("rok", scrapeRemoteOK(page, launched)))
    /\ UNCHANGED page
    /\ UNCHANGED outsideScrape

InitScrapeSpec ==
    /\ page \in Pages
    /\ scraped = <<>>
    /\ InitStore /\ InitIngest /\ InitRead /\ InitEnrich /\ InitCrawl
    /\ InitTrigger /\ InitSelect /\ InitAccount

NextScrape ==
    \/ \E randoms \in [1..MaxCards -> Randoms] : OnMessage(randoms)
    \/ \E launched \in BOOLEAN, randoms \in [1..MaxCards -> Randoms] :
          ScrapeWeWorkRemotely(launched, randoms)
    \/ \E launched \in BOOLEAN : ScrapeRemoteOK(launched)

SpecScrape == InitScrapeSpec /\ [][NextScrape]_vars

----------------------------------------------------------------------------
(* Properties of the field extractors *)

\* the card exposes an identifier of its posting that outlasts the scrape:
\* a job id attribute, a data-jk or id of the title link, a job url
Durable(site, card) ==
    CASE site = "linkedin" ->
           \/ ~Falsy(card.dataJobId)
           \/ card.linkAnchor # <<>> /\ JobsViewId(card.linkAnchor[1].href) # <<>>
      [] site = "indeed" ->
           /\ card.title[1] # <<>>
           /\ ~Falsy(card.title[1][1].dataJk) \/ ~Falsy(card.title[1][1].id)
      [] site = "wwr" -> card.anchor # <<>> /\ ~Falsy(card.anchor[1].href)
      [] site = "rok" -> ~Falsy(card.dataId)
      [] OTHER -> FALSE

\* the id was minted from Math.random()
IsRandom(id) == Head(id) \in {"li-", "ind-", "wwr-"}

ScrapedIds(result) == [k \in DOMAIN result.jobs |-> result.jobs[k].id]

\* C22: when every posting of the page exposes a durable identifier, no
\* scrape of the page mints a random id and two scrapes of the page by the
\* same adapter give the same ids.
C22_DeterministicIds ==
    (\A k \in DOMAIN page.cards : Durable(page.site, page.cards[k]))
    => \A i, j \in DOMAIN scraped :
          /\ \A k \in DOMAIN scraped[i].jobs : ~IsRandom(scraped[i].jobs[k].id)
          /\ (scraped[i].by = scraped[j].by /\ ~scraped[i].threw /\ ~scraped[j].threw)
             => ScrapedIds(scraped[i]) = ScrapedIds(scraped[j])

\* some selector of the title finds an element with text in the card
HasTitleText(card) ==
    \E i \in DOMAIN card.title :
        /\ card.title[i] # <<>>
        /\ ~card.title[i][1].svg
        /\ trim(card.title[i][1].innerText) # <<>>

\* C23: every record the content script emits has a usable title, neither
\* empty nor the sentinel 'Unknown Title', and a card in which no title
\* selector finds text gives no record.
C23_UsableTitle ==
    \A i \in DOMAIN scraped :
        (scraped[i].by = "content" /\ page.site \in {"linkedin", "indeed"})
        => /\ \A k \in DOMAIN scraped[i].jobs :
                 /\ scraped[i].jobs[k].title # <<>>
                 /\ scraped[i].jobs[k].title # UnknownTitle
           /\ Len(scraped[i].jobs)
              <= Cardinality({k \in DOMAIN page.cards : HasTitleText(page.cards[k])})

\* parsing the card raises an exception
Raises(card) ==
    \E el \in {FirstMatch(card.title), FirstMatch(card.company), FirstMatch(card.location)} :
        InnerTextThrows(el)

\* the card has a title element and its parsing raises nothing
Parses(card) == FirstMatch(card.title) # <<>> /\ ~Raises(card)

\* C24: scrapeJobsFromPage never throws: it returns the records of the
\* cards whose parsing raises nothing, in the order of the page, and skips
\* the cards whose parsing raises.
C24_ExtractorNeverThrows ==
    \A i \in DOMAIN scraped :
        scraped[i].by = "content"
        => /\ ~scraped[i].threw
           /\ page.site \in {"linkedin", "indeed"}
              => LET parsed == SelectSeq(page.cards, Parses)
                 IN  [k \in DOMAIN scraped[i].jobs |-> scraped[i].jobs[k].title]
                     = [k \in DOMAIN parsed |-> trim(FirstMatch(parsed[k].title)[1].innerText)]

\* a page of two cards, the first raising: the second card alone is returned
C24_Witness ==
    /\ page.site = "linkedin" /\ Len(page.cards) = 2
    /\ Raises(page.cards[1]) /\ Parses(page.cards[2])
    /\ \E i \in DOMAIN scraped :
          /\ scraped[i].by = "content" /\ ~scraped[i].threw
          /\ Len(scraped[i].jobs) = 1
          /\ scraped[i].jobs[1].title = trim(FirstMatch(page.cards[2].title)[1].innerText)

\* the text of the first selector of the list whose match has text, or the
\* sentinel when none has
RECURSIVE FirstText(_, _)
FirstText(matches, sentinel) ==
    IF matches = <<>> THEN sentinel
    ELSE IF Head(matches) # <<>> /\ trim(Head(matches)[1].innerText) # <<>>
    THEN trim(Head(matches)[1].innerText)
    ELSE FirstText(Tail(matches), sentinel)

\* C25: each field of an emitted record is the text of the first selector
\* of its list that finds a non-empty match, and the sentinel of the field
\* only when no selector finds one.
C25_SelectorCascade ==
    \A i \in DOMAIN scraped :
        (/\ scraped[i].by = "content" /\ page.site = "linkedin"
         /\ Len(page.cards) = 1 /\ Len(scraped[i].jobs) = 1)
        => LET card == page.cards[1]
               job == scraped[i].jobs[1]
           IN  /\ job.title = FirstText(card.title, UnknownTitle)
               /\ job.company = FirstText(card.company, UnknownCompany)
               /\ job.location = FirstText(card.location, RemoteUnknown)

----------------------------------------------------------------------------
(* Triggers of the enrichment worker: POST /api/enrich and enrich_jobs.js   *)

\* Every trigger calls enrichJobDescriptions; the runs they start share the
\* jobs table and the remote sites.  A run is followed at the grain of its
\* batches: the fetches of a batch are in flight from the slice to the
\* resumption after Promise.allSettled.
MaxTriggers == 2
MaxTriggerFaults == 1

\* enrichJobDescriptions has been called and awaits getJobsNeedingEnrichment
Called(via) ==
    [via |-> via, pc |-> "selecting", jobs |-> <<>>, i |-> 0, inflight |-> {},
     result |-> "none", faulty |-> FALSE]

\* a step of run r may go wrong
MayFault(r) ==
    runs[r].faulty \/ Cardinality({q \in DOMAIN runs : runs[q].faulty}) < MaxTriggerFaults

Respond_Never(log) == log

\* res.json({ message: "Job enrichment started in background",
\*            status: "processing" })
Respond(log) == Append(log, "processing")

\* POST /api/enrich: the run is started, its promise is given a then and a
\* catch, and the response is sent
PostEnrich ==
    /\ Len(runs) < MaxTriggers
    /\ runs' = Append(runs, Called("http"))
    /\ answers' = Append(answers, Respond(<<>>))
    /\ UNCHANGED jobs
    /\ UNCHANGED outsideTrigger

\* node enrich_jobs.js: the run is awaited
EnrichJobs ==
    /\ Len(runs) < MaxTriggers
    /\ runs' = Append(runs, Called("cli"))
    /\ answers' = Append(answers, <<>>)
    /\ UNCHANGED jobs
    /\ UNCHANGED outsideTrigger

\* the ids of jobs.slice(i, i + BATCH_SIZE)
BatchIds(found, i) == {found[k].id : k \in BatchMembers(i, Len(found))}

\* await getJobsNeedingEnrichment() resumes: with no candidate the run
\* returns, else the browser is launched
Selected(r, reachable) ==
    /\ r \in DOMAIN runs
    /\ runs[r].pc = "selecting"
    /\ reachable \/ MayFault(r)
    /\ LET found == IF reachable THEN getJobsNeedingEnrichment(jobs) ELSE <<>>
       IN  runs' = [runs EXCEPT ![r].jobs = found,
                                ![r].faulty = @ \/ ~reachable,
                                ![r].pc = IF Len(found) = 0 THEN "settled" ELSE "launching",
                                ![r].result = IF Len(found) = 0 THEN "returned" ELSE "none"]
    /\ UNCHANGED <<jobs, answers>>
    /\ UNCHANGED outsideTrigger

\* await puppeteer.launch() resumes and the first batch is fetched, or
\* rejects and the run throws
Launched(r, launched) ==
    /\ r \in DOMAIN runs
    /\ runs[r].pc = "launching"
    /\ launched \/ MayFault(r)
    /\ runs' = IF launched
               THEN [runs EXCEPT ![r].pc = "fetching",
                                 ![r].inflight = BatchIds(runs[r].jobs, 0)]
               ELSE [runs EXCEPT ![r].pc = "settled", ![r].result = "threw",
                                 ![r].faulty = TRUE]
    /\ UNCHANGED <<jobs, answers>>
    /\ UNCHANGED outsideTrigger

\* the updates of a batch: UPDATE jobs SET description = ? WHERE id = ? for
\* each job whose fetch gave a description
UpdateDescriptions(table, ids, description) ==
    [k \in 1..Len(table) |->
        IF table[k].id \in ids THEN [table[k] EXCEPT !.description = description]
        ELSE table[k]]

\* await Promise.allSettled(...) resumes: the descriptions fetched are
\* written; then the cool-down starts, or the loop ends, the browser is
\* closed and the summary returned
BatchFetched(r, failed) ==
    /\ r \in DOMAIN runs
    /\ runs[r].pc = "fetching"
    /\ failed \subseteq runs[r].inflight
    /\ failed = {} \/ MayFault(r)
    /\ jobs' = UpdateDescriptions(jobs, runs[r].inflight \ failed, Text120)
    /\ runs' = [runs EXCEPT ![r].inflight = {},
                            ![r].faulty = @ \/ failed # {},
                            ![r].pc = IF CoolDown(runs[r].i, Len(runs[r].jobs))
                                      THEN "cooldown" ELSE "settled",
                            ![r].result = IF CoolDown(runs[r].i, Len(runs[r].jobs))
                                          THEN "none" ELSE "returned"]
    /\ UNCHANGED answers
    /\ UNCHANGED outsideTrigger

\* the 5 seconds between batches have passed: the next batch is fetched
NextBatch(r) ==
    /\ r \in DOMAIN runs
    /\ runs[r].pc = "cooldown"
    /\ runs' = [runs EXCEPT ![r].pc = "fetching",
                            ![r].i = @ + BATCH_SIZE,
                            ![r].inflight = BatchIds(runs[r].jobs, runs[r].i + BATCH_SIZE)]
    /\ UNCHANGED <<jobs, answers>>
    /\ UNCHANGED outsideTrigger

\* the promise of the run settles: the then or the catch of the route logs
\* it; enrich_jobs.js leaves with exit code 0 or 1
RunSettled(r) ==
    /\ r \in DOMAIN runs
    /\ runs[r].pc = "settled"
    /\ runs' = [runs EXCEPT ![r].pc = "done"]
    /\ answers' = [answers EXCEPT ![r] =
                     Append(@, CASE runs[r].via = "http" /\ runs[r].result = "returned"
                                      -> "completed"
                                 [] runs[r].via = "http" /\ runs[r].result = "threw"
                                      -> "error"
                                 [] runs[r].via = "cli" /\ runs[r].result = "returned"
                                      -> "exit 0"
                                 [] runs[r].via = "cli" /\ runs[r].result = "threw"
                                      -> "exit 1")]
    /\ UNCHANGED jobs
    /\ UNCHANGED outsideTrigger

InitTriggerSpec ==
    /\ InitEnrichStore
    /\ InitIngest /\ InitRead /\ InitEnrich /\ InitCrawl
    /\ InitScrape /\ InitTrigger /\ InitSelect /\ InitAccount

NextTrigger ==
    \/ PostEnrich
    \/ EnrichJobs
    \/ \E r \in DOMAIN runs, reachable \in BOOLEAN : Selected(r, reachable)
    \/ \E r \in DOMAIN runs, launched \in BOOLEAN : Launched(r, launched)
    \/ \E r \in DOMAIN runs, id \in StoredIds(jobs) : BatchFetched(r, {id})
    \/ \E r \in DOMAIN runs : BatchFetched(r, {})
    \/ \E r \in DOMAIN runs : NextBatch(r)
    \/ \E r \in DOMAIN runs : RunSettled(r)

SpecTrigger == InitTriggerSpec /\ [][NextTrigger]_vars

----------------------------------------------------------------------------
(* Properties of the triggers *)

\* C26: POST /api/enrich answers with acceptance without waiting for the
\* run: from the call on, at every point of the run, the response
\* "processing" has been sent, and a run that fails later changes nothing
\* of the response and is logged by the catch of the route.
C26_AsynchronousTrigger ==
    \A r \in DOMAIN runs :
        runs[r].via = "http"
        => /\ answers[r] # <<>> /\ Head(answers[r]) = "processing"
           /\ answers[r] \in {<<"processing">>, <<"processing", "completed">>,
                              <<"processing", "error">>}
           /\ runs[r].pc # "done" => answers[r] = <<"processing">>
           /\ (runs[r].pc = "done" /\ runs[r].result = "threw")
              => answers[r] = <<"processing", "error">>

\* a run started over HTTP has failed after its response was sent
C26_Witness ==
    \E r \in DOMAIN runs :
        /\ runs[r].via = "http" /\ runs[r].pc = "done" /\ runs[r].result = "threw"
        /\ runs[r].jobs # <<>>
        /\ answers[r] = <<"processing", "error">>

RECURSIVE InFlightOf(_)
InFlightOf(started) ==
    IF started = <<>> THEN 0
    ELSE Cardinality(Head(started).inflight) + InFlightOf(Tail(started))

\* C29: however many runs the triggers have started, at most BATCH_SIZE
\* page fetches are in flight at any time and no job is being fetched by
\* two runs at once.
C29_LoadBoundAcrossTriggers ==
    /\ InFlightOf(runs) <= BATCH_SIZE
    /\ \A r, q \in DOMAIN runs : r # q => runs[r].inflight \cap runs[q].inflight = {}

----------------------------------------------------------------------------
(* Selection query of the enrichment worker on a large store *)

\* The store holds one posting ingested first and n postings ingested
\* after it, one per month, all with placeholder descriptions.
MaxNewer == 101

OldestPosting == Posting(1)

NewerPosting(k) ==
    [Posting(2) EXCEPT !.id = ToString(k), !.title = <<"Analyst", ToString(k)>>,
                       !.url = <<"https://jobs/", ToString(k)>>]

\* const jobs = await getJobsNeedingEnrichment(): the candidates of a run
SelectCandidates ==
    /\ ~selected.queried
    /\ LET found == getJobsNeedingEnrichment(jobs)
       IN  selected' = [queried |-> TRUE, ids |-> [k \in DOMAIN found |-> found[k].id]]
    /\ UNCHANGED jobs
    /\ UNCHANGED outsideSelect

\* the run fetches a description of 51 characters for the oldest posting,
\* one of its candidates, and writes it
WriteShort ==
    /\ OldestPosting.id \in Range(selected.ids)
    /\ jobs' = UpdateDescription(jobs, OldestPosting.id, Text51)
    /\ selected' = NoSelection
    /\ UNCHANGED outsideSelect

InitSelectStore ==
    \E n \in 0..MaxNewer :
        /\ jobs = <<InsertValues(OldestPosting, 0, RetentionMonths, 0)>>
                  \o [k \in 1..n |-> InsertValues(NewerPosting(k), k, k + RetentionMonths, k)]
        /\ now = 0

InitSelectSpec ==
    /\ InitSelectStore
    /\ InitIngest /\ InitRead /\ InitEnrich /\ InitCrawl
    /\ InitScrape /\ InitTrigger /\ InitSelect /\ InitAccount

NextSelect ==
    \/ SelectCandidates
    \/ WriteShort

SpecSelect == InitSelectSpec /\ [][NextSelect]_vars

\* the job can be fetched and its description is absent, a placeholder or
\* under the threshold
Unfinished(row) ==
    /\ row.url \notin {<<>>, <<"#">>}
    /\ \/ row.description = <<>>
       \/ row.description \in Range(Placeholders)
       \/ length(row.description) < MinDescriptionLength

NotOlder(k) ==
    {j \in DOMAIN jobs \ {k} : Unfinished(jobs[j]) /\ jobs[j].added_at >= jobs[k].added_at}

----------------------------------------------------------------------------
(* Selection query of the enrichment worker: the jobs it returns *)

\* One stored job is drawn from every kind of url and description next to
\* n postings with placeholder descriptions, ingested one per month; the
\* drawn job is the oldest or the newest of the store.
QueryUrls == {<<>>, <<"#">>, <<"https://jobs/", "q">>}

QueryDescriptions ==
    {<<>>, ViewPostingNote, <<"VIEW", "POSTING", "FOR", "DETAILS">>,
     WeWorkRemotelyNote, RemoteOKNote, Text10, Text120,
     <<"Job", "scraped", "from", "c120">>}

QueryStoreSizes == {0, 1, SelectionLimit - 1, SelectionLimit, MaxNewer}

QueryPosting(url, description) ==
    [Posting(3) EXCEPT !.id = "q", !.url = url, !.description = description]

InitQueryStore ==
    \E n \in QueryStoreSizes, url \in QueryUrls, description \in QueryDescriptions,
       newest \in BOOLEAN :
        LET t == IF newest THEN n + 1 ELSE 0
        IN  /\ jobs = <<InsertValues(QueryPosting(url, description), t, t + RetentionMonths, t)>>
                      \o [k \in 1..n |->
                            InsertValues(NewerPosting(k), k, k + RetentionMonths, k)]
            /\ now = 0

\* getJobsNeedingEnrichment is called once: the rows of the query, or none
\* when the connection or the query fails
QueryCandidates(reachable) ==
    /\ ~selected.queried
    /\ LET found == IF reachable THEN getJobsNeedingEnrichment(jobs) ELSE <<>>
       IN  selected' = [queried |-> TRUE, ids |-> [k \in DOMAIN found |-> found[k].id]]
    /\ UNCHANGED jobs
    /\ UNCHANGED outsideSelect

InitQuerySpec ==
    /\ InitQueryStore
    /\ InitIngest /\ InitRead /\ InitEnrich /\ InitCrawl
    /\ InitScrape /\ InitTrigger /\ InitSelect /\ InitAccount

NextQuery == \E reachable \in BOOLEAN : QueryCandidates(reachable)

SpecQuery == InitQuerySpec /\ [][NextQuery]_vars

\* the placeholder descriptions the scrapers store
KnownPlaceholders == {ViewPostingNote, WeWorkRemotelyNote, RemoteOKNote}

\* the job has a url to fetch and a description that is absent, a known
\* placeholder or shorter than 100 characters
Eligible(row) ==
    /\ row.url \notin {<<>>, <<"#">>}
    /\ \/ row.description = <<>>
       \/ row.description \in KnownPlaceholders
       \/ length(row.description) < MinDescriptionLength

StoredRow(id) == CHOOSE k \in DOMAIN jobs : jobs[k].id = id

\* C31: the selection query returns stored jobs with a usable url whose
\* description is absent, a known placeholder or shorter than 100
\* characters and no other job, the 100 most recently added of them (all of
\* them when there are fewer), most recently added first.
C31_SelectionQuery ==
    selected.queried
    => LET eligible == {k \in DOMAIN jobs : Eligible(jobs[k])}
           picked == {StoredRow(selected.ids[i]) : i \in DOMAIN selected.ids}
       IN  /\ picked \subseteq eligible
           /\ Len(selected.ids) =
                 IF Cardinality(eligible) > SelectionLimit THEN SelectionLimit
                 ELSE Cardinality(eligible)
           /\ \A i, j \in DOMAIN selected.ids :
                 i < j => jobs[StoredRow(selected.ids[i])].added_at
                          >= jobs[StoredRow(selected.ids[j])].added_at
           /\ \A k \in eligible \ picked, p \in picked :
                 jobs[k].added_at <= jobs[p].added_at

----------------------------------------------------------------------------
(* Termination of the crawl *)

\* an await or a timer of scrapeNextKeyword or scrapeCurrentPage that will
\* run the scheduler again
Scheduled == {t \in BagToSet(pending) : t.at # "response"}

\* C32: a crawl never remains running with no further step scheduled:
\* whatever happened at a step (no active tab, a navigation error, an
\* extraction error), a running crawl has an await or a timer outstanding
\* that takes it to the next step, to completion or to the stop.
C32_CrawlTermination == isRunning => Scheduled # {}

----------------------------------------------------------------------------
(* Auto-ingestion at the end of the crawl *)

\* the uploads of the crawl that was started last
UploadsOfRun ==
    {p \in Events({"upload"}) : \A q \in Events({"start"}) : q < p}

\* C33: the batch uploaded when the crawl completes holds the results of
\* every step of the run: no extraction result is appended to allJobs
\* after the upload, however late the page answers.
C33_UploadCarriesEverything ==
    \A p \in UploadsOfRun : Range(allJobs) \subseteq Range(trail[p].jobs)

----------------------------------------------------------------------------
(* Indices of the crawl *)

\* C34: currentLocationIndex stays within 0..|selectedLocations| and
\* currentKeywordIndex within 0..|config.keywords|, and while the crawl is
\* running a search about to be navigated is the one the two indices
\* identify.
C34_IndexInvariant ==
    /\ currentLocationIndex \in 0..Len(selectedLocations)
    /\ currentKeywordIndex \in 0..Len(config.keywords)
    /\ isRunning =>
          \A t \in BagToSet(pending) :
              t.at = "tabsQuery" =>
                 /\ currentLocationIndex < Len(selectedLocations)
                 /\ currentKeywordIndex < Len(config.keywords)
                 /\ t.l = selectedLocations[currentLocationIndex + 1]
                 /\ t.k = config.keywords[currentKeywordIndex + 1]

----------------------------------------------------------------------------
(* Summary of an enrichment run *)

\* C35: whenever a run returns, total is the number of candidates it
\* selected, enriched + failed = total, every candidate is counted in
\* exactly one of the two, and a job counted as enriched has the fetched
\* description stored.
C35_SummaryAccounting ==
    run.pc = "returned"
    => /\ Summary(run).total = Len(fetch)
       /\ Summary(run).enriched + Summary(run).failed = Summary(run).total
       /\ Summary(run).enriched = Cardinality(Bucket("enriched"))
       /\ Summary(run).failed = Cardinality(Bucket("failed"))
       /\ \A k \in 1..Len(fetch) : fetch[k].bucket \in {"enriched", "failed"}
       /\ \A k \in Bucket("enriched") :
             /\ ~Falsy(fetch[k].value)
             /\ StoredDescription(run.jobs[k].id) = fetch[k].value

\* a run has returned a summary with jobs enriched and a job whose fetched
\* description could not be written
C35_Witness ==
    /\ run.pc = "returned"
    /\ Summary(run).enriched > 0
    /\ Summary(run).enriched + Summary(run).failed = Len(run.jobs)
    /\ \E k \in Bucket("failed") :
          /\ ~Falsy(fetch[k].value)
          /\ StoredDescription(run.jobs[k].id) = run.jobs[k].description

----------------------------------------------------------------------------
(* Periodic refresh of the store: refreshJobCache *)

MaxRefreshes == 2
MaxRefreshFaults == 1

\* a result of the Adzuna search, as the API returns it
AdzunaResult ==
    [id |-> <<"9001">>, title |-> <<"<strong>", "Analyst", "</strong>">>,
     company |-> <<"Acme">>, location |-> <<"Austin">>, contract_time |-> <<>>,
     salary_min |-> <<>>, salary_max |-> <<>>, created |-> 0,
     description |-> <<"Watch", "<strong>", "networks", "</strong>">>,
     redirect_url |-> <<"https://adzuna/", "9001">>]

\* replace(/<[^>]*>?/gm, "")
StripTags(text) == SelectSeq(text, LAMBDA tok : tok \notin {"<strong>", "</strong>"})

\* response.data.results.map(...): the record made of a result; the
\* descriptions here are shorter than the 200 characters kept
ApiJob(job) ==
    [id |-> job.id, title |-> StripTags(job.title), company |-> job.company,
     location |-> job.location, type |-> Or(job.contract_time, <<"Full-time">>),
     salary |-> IF Falsy(job.salary_min) THEN <<"Not", "listed">>
                ELSE <<"$">> \o job.salary_min \o <<"-", "$">> \o job.salary_max,
     posted |-> toLocaleDateString(job.created),
     description |-> StripTags(job.description) \o <<"...">>,
     url |-> job.redirect_url, source |-> <<"Adzuna">>]

\* addJobsToSystem(newJobs) as one call with no other writer: every record
\* whose id is not stored is inserted; job.easyApply || false
RECURSIVE AddJobs(_, _, _)
AddJobs(table, newJobs, t) ==
    IF newJobs = <<>> THEN table
    ELSE LET job == Head(newJobs) @@ [easyApply |-> FALSE]
             row == InsertValues(job, t, t + RetentionMonths, t)
         IN  AddJobs(IF DuplicateKey(table, job.id) THEN table ELSE StoreRow(table, row),
                     Tail(newJobs), t)

\* the pages of the two job boards and the results of the Adzuna search
\* (none without credentials), the same at every refresh
Boards ==
    {[site |-> "boards", adzuna |-> a, wwr |-> w.cards, rok |-> r.cards] :
        a \in {<<>>, <<AdzunaResult>>},
        w \in Documents("wwr", PlainWeWorkRemotelyNodes, PlainWeWorkRemotelyNodes),
        r \in Documents("rok", PlainRemoteOKRows, PlainRemoteOKRows)}

RefreshFaults == {"none", "adzuna", "wwr", "rok", "store"}

\* refreshJobCache(): the three sources are read, each behind its own try,
\* and what they gave is handed to addJobsToSystem
RefreshJobCache(fault, randoms) ==
    /\ page.site = "boards"
    /\ Len(scraped) < MaxRefreshes
    /\ fault = "none"
       \/ Cardinality({p \in DOMAIN scraped : scraped[p].fault # "none"}) < MaxRefreshFaults
    /\ LET apiJobs == IF fault = "adzuna" THEN <<>>
                      ELSE [k \in DOMAIN page.adzuna |-> ApiJob(page.adzuna[k])]
           scrapedJobs == scrapeWeWorkRemotely([site |-> "wwr", cards |-> page.wwr],
                                               fault # "wwr", randoms)
           remoteOkJobs == scrapeRemoteOK([site |-> "rok", cards |-> page.rok],
                                          fault # "rok")
           newJobs == apiJobs \o scrapedJobs.jobs \o remoteOkJobs.jobs
       IN  /\ jobs' = IF fault = "store" THEN jobs ELSE AddJobs(jobs, newJobs, now)
           /\ scraped' = Append(scraped,
                                [by |-> "refreshJobCache", fault |-> fault,
                                 threw |-> fault = "store" /\ newJobs # <<>>,
                                 jobs |-> newJobs, stored |-> Len(jobs')])
    /\ UNCHANGED <<now, page>>
    /\ UNCHANGED <<ingestVars, readVars, enrichVars, crawlVars, triggerVars, selectVars,
                   accountVars>>

InitRefreshSpec ==
    /\ page \in Boards
    /\ scraped = <<>>
    /\ InitStore /\ InitIngest /\ InitRead /\ InitEnrich /\ InitCrawl
    /\ InitTrigger /\ InitSelect /\ InitAccount

NextRefresh ==
    \E fault \in RefreshFaults, randoms \in [1..MaxCards -> Randoms] :
        RefreshJobCache(fault, randoms)

SpecRefresh == InitRefreshSpec /\ [][NextRefresh]_vars

\* C36: a refresh that follows a refresh of the same pages, both without a
\* failure, inserts nothing: the number of stored jobs is the same after
\* the second as after the first.
C36_RescrapeDoesNotGrow ==
    \A p \in 2..Len(scraped) :
        (scraped[p - 1].fault = "none" /\ scraped[p].fault = "none")
        => scraped[p].stored = scraped[p - 1].stored

----------------------------------------------------------------------------
(* Listing route: GET /api/v1/jobs *)

\* the options the route builds: limit is the limit of the request or the
\* results per request of the plan, never 0
RouteOptions ==
    [search : {<<>>, <<"security">>},
     location : {NoLocation, LocationString(<<"Austin">>),
                 LocationList(<<<<"Austin">>, <<"Remote">>>>)},
     company : {<<>>, <<"Acme">>},
     remote : BOOLEAN,
     salaryMin : {0, SalaryFloor},
     postedAfter : {-1},
     limit : {1, 2},
     offset : {0, 1}]

\* the handler of the route: getJobs(options), then getJobCount(options),
\* then the meta block of the response
ListJobs(options) ==
    /\ \E rows \in GetJobsResults(jobs, now, options) :
          LET totalJobs == getJobCount(jobs, now, options)
          IN  resp' = [op |-> "listJobs", filters |-> options, rows |-> rows, at |-> now,
                       total |-> totalJobs, returned |-> Len(rows),
                       hasMore |-> options.offset + Len(rows) < totalJobs]
    /\ UNCHANGED outsideRead

NextList ==
    \/ \E options \in RouteOptions : ListJobs(options)
    \/ Tick

SpecList == InitReadSpec /\ [][NextList]_vars

\* the jobs the query of the listing selects, before LIMIT and OFFSET
Listed(table, t, filters) ==
    IF LocationThrows(filters) THEN {}
    ELSE {r \in Range(table) : GetJobsWhere(r, t, filters)}

\* C37: in a response of the listing route, total is the number of jobs
\* that match the filters the returned data was selected with, so returned
\* is at most total and hasMore tells whether matching jobs exist beyond
\* offset + returned.
C37_ListingTotal ==
    resp.op = "listJobs"
    => LET matching == Cardinality(Listed(jobs, resp.at, resp.filters))
       IN  /\ resp.total = matching
           /\ resp.returned <= resp.total
           /\ resp.hasMore <=> (matching > resp.filters.offset + resp.returned)

----------------------------------------------------------------------------
(* API keys: createApiKey, revokeApiKey *)

\* if (existingKeys[0].count >= 5)
MaxActiveKeys == 5

MaxRevokes == 2

Users == {"u1", "u2"}

\* SELECT COUNT(*) as count FROM api_keys WHERE user_id = ? AND is_active = TRUE
ActiveKeys(table, userId) ==
    {k \in DOMAIN table : table[k].user_id = userId /\ table[k].is_active}

\* createApiKey(userId): the count of the active keys is read; at the cap
\* the call throws
CountKeys(p, userId) ==
    /\ keyCall[p].pc = "idle"
    /\ LET count == Cardinality(ActiveKeys(apiKeys, userId))
       IN  keyCall' = [keyCall EXCEPT ![p] =
                          [pc |-> IF count >= MaxActiveKeys THEN "refused" ELSE "counted",
                           user |-> userId, count |-> count]]
    /\ UNCHANGED <<apiKeys, usage, request>>
    /\ UNCHANGED outsideAccount

\* createApiKey: INSERT INTO api_keys (is_active defaults to TRUE), and the
\* key is returned
InsertKey(p) ==
    /\ keyCall[p].pc = "counted"
    /\ apiKeys' = Append(apiKeys, [user_id |-> keyCall[p].user, is_active |-> TRUE])
    /\ keyCall' = [keyCall EXCEPT ![p].pc = "created"]
    /\ UNCHANGED <<usage, request>>
    /\ UNCHANGED outsideAccount

\* revokeApiKey(keyId, userId): UPDATE api_keys SET is_active = FALSE
\* WHERE id = ? AND user_id = ?
RevokeApiKey(keyId, userId) ==
    /\ Cardinality({k \in DOMAIN apiKeys : ~apiKeys[k].is_active}) < MaxRevokes
    /\ apiKeys' = [k \in DOMAIN apiKeys |->
                      IF k = keyId /\ apiKeys[k].user_id = userId
                      THEN [apiKeys[k] EXCEPT !.is_active = FALSE]
                      ELSE apiKeys[k]]
    /\ apiKeys' # apiKeys
    /\ UNCHANGED <<keyCall, usage, request>>
    /\ UNCHANGED outsideAccount

\* the keys a user has come to hold through calls made one after another
InitKeysSpec ==
    /\ \E n \in 0..MaxActiveKeys, m \in 0..1 :
          apiKeys = [k \in 1..n |-> [user_id |-> "u1", is_active |-> TRUE]]
                    \o [k \in 1..m |-> [user_id |-> "u2", is_active |-> TRUE]]
    /\ keyCall = [p \in Callers |-> IdleKeyCall]
    /\ usage = 0
    /\ request = [p \in Callers |-> IdleRequest]
    /\ InitStore /\ InitIngest /\ InitRead /\ InitEnrich /\ InitCrawl
    /\ InitScrape /\ InitTrigger /\ InitSelect

NextKeys ==
    \/ \E p \in Callers, userId \in Users : CountKeys(p, userId)
    \/ \E p \in Callers : InsertKey(p)
    \/ \E keyId \in DOMAIN apiKeys, userId \in Users : RevokeApiKey(keyId, userId)

SpecKeys == InitKeysSpec /\ [][NextKeys]_vars

\* C38: no user ever has more than 5 active API keys, however calls of
\* createApiKey and revokeApiKey interleave.
C38_ActiveKeyCap ==
    \A userId \in Users : Cardinality(ActiveKeys(apiKeys, userId)) <= MaxActiveKeys

----------------------------------------------------------------------------
(* Monthly quota: enforceQuota, checkQuota, trackUsage, recordUsage *)

\* plan free: rowLimit: 100, resultsPerRequest: 25
rowLimit == 100
resultsPerRequest == 25

\* req.query.limit as parseInt reads it; 0 stands for a missing limit
QueryLimits == {0, 10, 25}

\* total_rows of the month after requests made one after another
UsedRows == {0, 50, 75, 90, 100}

\* enforceQuota: checkQuota(userId, requestedLimit) reads the usage of the
\* month; the request goes on when the rows asked for fit into what remains
\* and is answered 429 otherwise
EnforceQuota(p, limit) ==
    /\ request[p].pc = "idle"
    /\ LET requestedLimit == IF limit = 0 THEN resultsPerRequest ELSE limit
           remaining == rowLimit - usage
       IN  request' = [request EXCEPT ![p] =
                          [pc |-> IF requestedLimit > remaining THEN "refused" ELSE "admitted",
                           requested |-> requestedLimit, rows |-> 0]]
    /\ UNCHANGED <<apiKeys, keyCall, usage>>
    /\ UNCHANGED outsideAccount

\* the route answers with res.json: trackUsage counts data.data.length, at
\* most the limit, and calls recordUsage without waiting for it
SendJson(p, rows) ==
    /\ request[p].pc = "admitted"
    /\ rows <= request[p].requested
    /\ request' = [request EXCEPT ![p].pc = "responded", ![p].rows = rows]
    /\ UNCHANGED <<apiKeys, keyCall, usage>>
    /\ UNCHANGED outsideAccount

\* recordUsage: the request is logged and total_rows of the month is raised
\* by the rows returned; a failure is logged and nothing is recorded
RecordUsage(p, stored) ==
    /\ request[p].pc = "responded"
    /\ usage' = IF stored THEN usage + request[p].rows ELSE usage
    /\ request' = [request EXCEPT ![p].pc = "recorded"]
    /\ UNCHANGED <<apiKeys, keyCall>>
    /\ UNCHANGED outsideAccount

InitQuotaSpec ==
    /\ usage \in UsedRows
    /\ request = [p \in Callers |-> IdleRequest]
    /\ apiKeys = <<>>
    /\ keyCall = [p \in Callers |-> IdleKeyCall]
    /\ InitStore /\ InitIngest /\ InitRead /\ InitEnrich /\ InitCrawl
    /\ InitScrape /\ InitTrigger /\ InitSelect

NextQuota ==
    \/ \E p \in Callers, limit \in QueryLimits : EnforceQuota(p, limit)
    \/ \E p \in Callers, rows \in {0, 10, 25} : SendJson(p, rows)
    \/ \E p \in Callers, stored \in BOOLEAN : RecordUsage(p, stored)

SpecQuota == InitQuotaSpec /\ [][NextQuota]_vars

\* C39: the rows recorded for a user in a month never exceed the row limit
\* of the plan, however the requests of the user interleave.
C39_QuotaNeverExceeded == usage <= rowLimit

====
